---- MODULE Spec2Model ----
(***************************************************************************)
(* Model of the duplicate-avoiding broadcast scheduler of                  *)
(* plugins/facts.py (facts, and the single trivia poll that follows it in  *)
(* the same file) and plugins/quiz.py (the batch of four trivia polls).    *)
(*                                                                         *)
(* Time is the wall clock in minutes since 00:00 IST of day 0.  Content    *)
(* identifiers are records: an id supplied by the facts API, the string of *)
(* a time.time() reading, a SHA-256 digest (injective on the text that was *)
(* hashed) or a "fallback_..." string.                                     *)
(***************************************************************************)
EXTENDS Integers, Sequences, FiniteSets, TLC

VARIABLES
    now,        \* wall clock, minutes
    until,      \* the instant at which the observed run ends
    faults,     \* whether the outside world (network, Telegram, disk) can fail in this run
    file,       \* file name -> content of the durable history record
    running,    \* the coroutine that runs between two awaits ("none": the loop is free)
    pc,         \* coroutine -> position in its code
    next_time,  \* scheduled loop -> the trigger it sleeps for
    sent_ids,   \* coroutine -> value returned by its load
    item,       \* coroutine -> item fetched last
    retry,      \* coroutine -> retry counter
    questions,  \* coroutine -> the items of the batch
    qi,         \* coroutine -> position of process_questions in the batch
    new_ids,    \* coroutine -> new_ids of process_questions
    fetched,    \* coroutine -> items fetched in this cycle, in order
    exc,        \* coroutine -> the step of this cycle that raised ("none" if none)
    posted,     \* coroutine -> items posted to the channel in this cycle, in order
    written,    \* coroutine -> list handed to the save of this cycle
    notified,   \* coroutine -> notices delivered in this cycle
    result,     \* coroutine -> how its last run ended
    fired,      \* scheduled loop -> triggers at whose wake-up a cycle began
    cycles,     \* coroutine -> cycles begun
    buffered,   \* coroutine -> what of its save waits in the buffers of its file
                \* object: "none", the "text", or its last bytes: the "tail" of
                \* what is on the disk, or "apart" once the file was written since
    probe       \* input and result of the last evaluation of a pure function

batch == <<questions, qi, new_ids>>

vars == <<now, until, faults, file, running, pc, next_time, sent_ids, item, retry, batch,
          fetched, exc, posted, written, notified, result, fired, cycles, buffered,
          probe>>

----------------------------------------------------------------------------
(* Identifiers *)

\* facts.py:68  fact_data.get('id', ...) when the id is present
ApiId(k) == [kind |-> "id", key |-> k, ws |-> FALSE, ts |-> 0, n |-> 0]

\* facts.py:68  str(time.time()) when the fact carries no id
TimeId(t) == [kind |-> "time", key |-> 0, ws |-> FALSE, ts |-> t, n |-> 0]

\* f"fallback_{time.time()}" and f"fallback_{n}_{time.time()}"
FallbackId(n, t) == [kind |-> "fallback", key |-> 0, ws |-> FALSE, ts |-> t, n |-> n]

\* facts.py:290  f"fallback_{datetime.now().timestamp()}"
StampFallbackId(t) ==
    [kind |-> "fallback_stamp", key |-> 0, ws |-> FALSE, ts |-> t, n |-> 0]

\* A string in a stored list that no fetch made: the head of one identifier
\* followed by the tail of another
Hybrid == [kind |-> "hybrid", key |-> 0, ws |-> FALSE, ts |-> 0, n |-> 0]

\* str.startswith("fallback_") of an identifier
HasFallbackPrefix(id) == id.kind \in {"fallback", "fallback_stamp"}

\* A text: its words (k) and whether it carries extra whitespace (ws).
Text(k, w) == [k |-> k, ws |-> w]

\* re.sub(r'\s+', ' ', s).strip()
clean_question(t) == Text(t.k, FALSE)

\* hashlib.sha256(question_text.encode()).hexdigest(): one digest per text
generate_question_id(t) ==
    [kind |-> "sha256", key |-> t.k, ws |-> t.ws, ts |-> 0, n |-> 0]

quiz_generate_question_id(t) ==
    [kind |-> "sha256", key |-> t.k, ws |-> t.ws, ts |-> 0, n |-> 0]

----------------------------------------------------------------------------
(* History store *)

SENT_FACTS_FILE == "sent_facts.json"
SENT_TRIVIA_FILE == "sent_trivia.json"
FileNames == {SENT_FACTS_FILE, SENT_TRIVIA_FILE}

MAX_STORED_FACTS == 200
MAX_STORED_QUESTIONS == 300
quiz_MAX_STORED_QUESTIONS == 300

\* Content of a record on disk.
\*   missing     no such file                  (open raises FileNotFoundError)
\*   unreadable  the file cannot be opened     (open raises PermissionError)
\*   empty       zero bytes                    (json.loads raises JSONDecodeError)
\*   partial     the first bytes of the text of an array (JSONDecodeError)
\*   undecodable bytes that are not UTF-8      (f.read() raises UnicodeDecodeError)
\*   garbage     text that is not JSON         (JSONDecodeError)
\*   null, object  valid JSON that is no array (json.loads returns None, or a
\*               dict whose keys are ids)
\*   list        a JSON array of identifiers
\* A list is as long as json.dumps makes it; text that is no JSON carries the
\* least and the greatest number of bytes it can have (lo, hi).
Content(st, ids) == [st |-> st, ids |-> ids, lo |-> 0, hi |-> 0]
Sized(st, lo, hi) == [st |-> st, ids |-> <<>>, lo |-> lo, hi |-> hi]
Missing == Content("missing", <<>>)
Unreadable == Content("unreadable", <<>>)
Empty == Content("empty", <<>>)
Partial(ids, lo, hi) == [st |-> "partial", ids |-> ids, lo |-> lo, hi |-> hi]
\* Text the process did not write: of any size (up to 2^31 - 1 bytes)
Garbage == Sized("garbage", 1, 2147483647)
Undecodable == Content("undecodable", <<>>)
JsonNull == Content("null", <<>>)
JsonObject(keys) == Content("object", keys)
JsonList(ids) == Content("list", ids)

\* A Python value held in sent_ids: a list, None or a dict (its keys, in order).
PyList(ids) == [t |-> "list", ids |-> ids]
PyNone == [t |-> "None", ids |-> <<>>]
PyDict(keys) == [t |-> "dict", ids |-> keys]

\* Outcome of a call: the exception raised ("none" if it returned) and the value.
Returned(v) == [raised |-> "none", val |-> v]
Raised(e) == [raised |-> e, val |-> PyNone]

\* json.loads(content) for the contents that parse
json_loads(c) ==
    CASE c.st = "list" -> PyList(c.ids)
      [] c.st = "null" -> PyNone
      [] c.st = "object" -> PyDict(c.ids)

IsJSONDecodeError(c) == c.st \in {"empty", "partial", "garbage"}

\* LastN keeping the oldest identifiers instead of the newest
LastN_oldest(ids, n) ==
    IF Len(ids) <= n THEN ids ELSE SubSeq(ids, 1, n)

\* ids[-n:] for n > 0
LastN(ids, n) ==
    IF Len(ids) <= n THEN ids ELSE SubSeq(ids, Len(ids) - n + 1, Len(ids))

load_sent_facts(c) ==
    IF c.st = "missing" \/ IsJSONDecodeError(c) THEN Returned(PyList(<<>>))
    ELSE IF c.st = "unreadable" THEN Raised("PermissionError")
    ELSE IF c.st = "undecodable" THEN Raised("UnicodeDecodeError")
    ELSE Returned(json_loads(c))

load_sent_trivia(c) ==
    IF c.st = "missing" \/ IsJSONDecodeError(c) THEN Returned(PyList(<<>>))
    ELSE IF c.st = "unreadable" THEN Raised("PermissionError")
    ELSE IF c.st = "undecodable" THEN Raised("UnicodeDecodeError")
    ELSE Returned(json_loads(c))

quiz_load_sent_trivia(c) ==
    IF c.st = "missing" \/ IsJSONDecodeError(c) THEN Returned(PyList(<<>>))
    ELSE IF c.st = "unreadable" THEN Raised("PermissionError")
    ELSE IF c.st = "undecodable" THEN Raised("UnicodeDecodeError")
    ELSE Returned(json_loads(c))

\* The identifiers by how long they are: a SHA-256 digest in hex, the id of the
\* facts API, str(time.time()), "fallback_" or "fallback_N_" before it,
\* "fallback_" before str(datetime.now().timestamp()), a hybrid
LenClass(id) == IF id.kind = "fallback" /\ id.n # 0 THEN "fallback_n" ELSE id.kind

\* len() of an identifier of class k, the least (m = "min") and the greatest
\* (m = "max") it can be: a digest has 64 characters and an id of the API 32;
\* str(time.time()) has 10 digits, the point and 1 to 7 decimals, and
\* str(datetime.now().timestamp()), of microseconds, 1 to 6; "fallback_" adds 9
\* characters and "fallback_N_" 11; a hybrid is shorter than two identifiers
ClassLen(k, m) ==
    CASE k = "sha256" -> 64
      [] k = "id" -> 32
      [] k = "time" -> IF m = "min" THEN 12 ELSE 18
      [] k = "fallback" -> 9 + (IF m = "min" THEN 12 ELSE 18)
      [] k = "fallback_n" -> 11 + (IF m = "min" THEN 12 ELSE 18)
      [] k = "fallback_stamp" -> 9 + (IF m = "min" THEN 12 ELSE 17)
      [] k = "hybrid" -> IF m = "min" THEN 0 ELSE 2 * 64

IdLen(id, m) == ClassLen(LenClass(id), m)

\* How many identifiers of ids are of class k
CountLen(ids, k) == Cardinality({i \in 1..Len(ids) : LenClass(ids[i]) = k})

\* len(json.dumps(ids)): brackets, every identifier in quotes, ", " between two
TextLen(ids, m) ==
    IF ids = <<>> THEN 2
    ELSE 2 + 2 * (Len(ids) - 1)
           + (ClassLen("sha256", m) + 2) * CountLen(ids, "sha256")
           + (ClassLen("id", m) + 2) * CountLen(ids, "id")
           + (ClassLen("time", m) + 2) * CountLen(ids, "time")
           + (ClassLen("fallback", m) + 2) * CountLen(ids, "fallback")
           + (ClassLen("fallback_n", m) + 2) * CountLen(ids, "fallback_n")
           + (ClassLen("fallback_stamp", m) + 2) * CountLen(ids, "fallback_stamp")
           + (ClassLen("hybrid", m) + 2) * CountLen(ids, "hybrid")

\* Bytes of a record on disk, the least and the greatest it can have.  A record
\* the process did not write as a list (null, an object, bytes that are no
\* UTF-8) has any size.
Size(c, m) ==
    CASE c.st = "list" -> TextLen(c.ids, m)
      [] c.st \in {"partial", "garbage"} -> IF m = "min" THEN c.lo ELSE c.hi
      [] c.st \in {"null", "object", "undecodable"} ->
            IF m = "min" THEN 1 ELSE 2147483647
      [] OTHER -> 0

\* aiofiles.open(FILE, "w"): the open truncates the file; a file that cannot be
\* opened raises and is left as it is
open_w(c) == IF c.st = "unreadable" THEN Raised("PermissionError") ELSE Returned(Empty)

\* The text of ids written at offset 0 of a file that holds c, without truncating:
\* a file no longer than the text holds the list (the first bytes of the same
\* text are no longer); bytes of c beyond the text stay, and text followed by
\* them is no JSON, unless what stays is the blank that ended a part-written
\* array
Flush(c, ids) ==
    IF c.st = "partial" /\ c.ids = ids /\ \A i \in 1..Len(ids) : ids[i] # Hybrid
    THEN {JsonList(ids)}
    ELSE
    (IF Size(c, "min") <= TextLen(ids, "max") + (IF c.st = "partial" THEN 1 ELSE 0)
     THEN {JsonList(ids)} ELSE {})
    \cup (IF Size(c, "max") > TextLen(ids, "min")
          THEN {Sized("garbage",
                      IF Size(c, "min") > TextLen(ids, "min")
                      THEN Size(c, "min") ELSE TextLen(ids, "min") + 1,
                      Size(c, "max"))}
          ELSE {})

\* The bytes the binary file object under f keeps before it writes them: the block
\* size of the file system.  The text layer above it hands over a text of 8192
\* bytes or more at the write and a shorter one at the close
BufferSize == 4096

\* The offset, from the opening quote of r[1], of the opening quote that would
\* follow r[j]: every identifier before takes its characters, two quotes and ", "
After(r, j, m) == IF j = 0 THEN 0 ELSE TextLen(SubSeq(r, 1, j), m)

\* What a file can hold after the bytes k to e - 1 of the text of ids are written
\* at offset k of a file that holds c, the text of a list or its first bytes:
\* c up to k, the bytes written, and c from e on (k1 <= k <= k2, e1 <= e <= e2;
\* `whole`: e is the end of the text).  The two texts are the same up to the
\* first identifier that differs.  At an offset a text is in the identifiers both
\* share (C), inside the string of an identifier (S), after its closing quote
\* (A), after the comma or the blank that follow (V), or at its end (E); offsets
\* are counted from the opening quote of the first identifier not shared.  Where
\* c and the text are in the same place at k, and at e when c goes on behind the
\* bytes written, the result is the text of a list (or its first bytes): the
\* identifiers of c before k, those written, those of c behind e, and where the
\* join falls inside two strings the head of one with the tail of the other.
\* Bytes that hold no quote written inside a string of c leave a string, too,
\* and a blank written behind the end of a list leaves the list.
\* Where the two are not in the same place, where c ends before k (the gap is
\* filled with NUL) or goes on behind the end of the text, the result is no JSON
Spliced(c, ids, k1, k2, e1, e2, whole) ==
    LET \* how many leading identifiers the two lists share: strings that are no
        \* identifiers are not known to be the same
        n0 == CHOOSE j \in 0..Len(ids) :
                 /\ j <= Len(c.ids)
                 /\ \A i \in 1..j : ids[i] = c.ids[i] /\ ids[i] # Hybrid
                 /\ \/ j = Len(ids) \/ j = Len(c.ids)
                    \/ ids[j + 1] # c.ids[j + 1] \/ ids[j + 1] = Hybrid
        common == SubSeq(ids, 1, n0)
        r == SubSeq(ids, n0 + 1, Len(ids))
        s == SubSeq(c.ids, n0 + 1, Len(c.ids))
        b1 == 1 + After(common, n0, "min")
        b2 == 1 + After(common, n0, "max")
        n1 == Size(c, "min")
        n2 == Size(c, "max")
        Max(a, b) == IF a >= b THEN a ELSE b
        \* two ranges of offsets that share an offset
        Meets(lo1, hi1, lo2, hi2) == lo1 <= hi2 /\ lo2 <= hi1
        State(cls, j, lo, hi, q1, q2) ==
            [cls |-> cls, j |-> j, lo |-> lo, hi |-> hi, q1 |-> q1, q2 |-> q2]
        States(q) ==
            LET N == Len(q)
                lo == [j \in 0..N |-> After(q, j, "min")]
                hi == [j \in 0..N |-> After(q, j, "max")]
            IN  {State("C", 0, 0 - b2, IF n0 > 0 THEN 0 - 3 ELSE 0 - 1, 0, 0)}
                \cup (IF n0 > 0 THEN {State("A", 0, 0 - 2, 0 - 2, 0, 0)} ELSE {})
                \cup (IF n0 = 0 THEN {State("V", 0, 0, 0, 0, 0)}
                      ELSE IF N > 0 THEN {State("V", 0, 0 - 1, 0, 0, 0)} ELSE {})
                \cup {State("S", j, lo[j - 1] + 1, hi[j - 1] + 1 + IdLen(q[j], "max"),
                            lo[j - 1], hi[j - 1]) : j \in 1..N}
                \cup {State("A", j, lo[j] - 2, hi[j] - 2, 0, 0) : j \in 1..N}
                \cup {State("V", j, lo[j] - 1, hi[j], 0, 0) : j \in 1..(N - 1)}
                \cup {IF N > 0 THEN State("E", N, lo[N] - 1, hi[N] - 1, 0, 0)
                      ELSE IF n0 > 0 THEN State("E", 0, 0 - 1, 0 - 1, 0, 0)
                      ELSE State("E", 0, 1, 1, 0, 0)}
        Min2(a, b) == IF a <= b THEN a ELSE b
        Sr == {x \in States(r) : x.cls # "E"}
        Ss == {y \in States(s) : y.cls = "E" => c.st = "list"}
        \* k is an offset of c and before e; e is behind k, and a join at e is
        \* before the end of c
        kmax == IF whole \/ k2 = 0 THEN Min2(k2, n2) ELSE Min2(Min2(k2, n2), e2 - 1)
        emin == IF whole THEN e1 ELSE Max(e1, k1 + 1)
        emax == Min2(e2, n2 - 1)
        \* the places where c (y) and the text (x) can be at one offset from w1 to w2
        Both(w1, w2) ==
            IF w1 > w2 THEN {}
            ELSE LET Near(q) == {z \in q : z.lo + b1 <= w2 /\ w1 <= z.hi + b2}
                     xs == Near(Sr)
                 IN  UNION {{[y |-> y, x |-> x, lo |-> Max(y.lo, x.lo), hi |-> Min2(y.hi, x.hi)] :
                                x \in {z \in xs : /\ z.lo <= y.hi /\ y.lo <= z.hi
                                                  /\ Max(y.lo, z.lo) + b1 <= w2
                                                  /\ w1 <= Min2(y.hi, z.hi) + b2}} :
                            y \in Near(Ss)}
        \* whether two identifiers at one position can end at different offsets
        Shifted == \E i \in 1..Len(r) :
                      /\ i <= Len(s)
                      /\ r[i] # s[i] \/ r[i] = Hybrid
                      /\ ~(/\ IdLen(r[i], "min") = IdLen(r[i], "max")
                           /\ IdLen(s[i], "min") = IdLen(s[i], "max")
                           /\ IdLen(r[i], "min") = IdLen(s[i], "min"))
        Differ(w1, w2) == \E m \in Both(w1, w2) :
                             m.y.cls # m.x.cls /\ (Shifted \/ m.y.cls = "E")
        Match(w1, w2) == {m \in Both(w1, w2) : m.y.cls = m.x.cls}
        \* the strings that the first characters of u and the last of v can make
        \* (a, b: where u and v are in their texts): a string of its own; v when
        \* the two can begin at one offset, where the characters of u before the
        \* join can be those of v; u when they can end at one
        Join(u, v, a, b) ==
            (IF u = v /\ u # Hybrid /\ a.q1 = a.q2 /\ b.q1 = b.q2 /\ a.q1 = b.q1
             THEN {} ELSE {Hybrid})
            \cup (IF u = Hybrid \/ Meets(a.q1, a.q2, b.q1, b.q2) THEN {v} ELSE {})
            \cup (IF v = Hybrid \/ Meets(a.q1 + IdLen(u, "min"), a.q2 + IdLen(u, "max"),
                                         b.q1 + IdLen(v, "min"), b.q2 + IdLen(v, "max"))
                  THEN {u} ELSE {})
        Lead(m, pre, str) ==
            [cls |-> m.y.cls, pre |-> pre, str |-> str, jx |-> m.x.j, lo |-> m.lo]
        Leads ==
            UNION {CASE m.y.cls = "C" -> {Lead(m, common, <<>>)}
                     [] m.y.cls = "S" ->
                           {Lead(m, common \o SubSeq(s, 1, m.y.j - 1), <<h>>) :
                                h \in Join(s[m.y.j], r[m.x.j], m.y, m.x)}
                     [] OTHER -> {Lead(m, common \o SubSeq(s, 1, m.y.j), <<>>)}
                   : m \in Match(k1, kmax)}
        Behind(y) == SubSeq(s, y.j + 1, Len(s))
        Tails(h) ==
            UNION {CASE h.lo >= m.hi -> {}
                     [] m.y.cls = "C" -> {c.ids}
                     [] m.y.cls = "S" ->
                           IF h.cls = "S" /\ h.jx = m.x.j
                           THEN {h.pre \o <<g>> \o Behind(m.y) :
                                    g \in {Hybrid}
                                         \cup (IF Len(h.pre) = n0 + m.y.j - 1
                                               THEN {s[m.y.j]} ELSE {})
                                         \cup (IF h.str[1] = r[m.x.j]
                                               THEN {r[m.x.j]}
                                                    \cap Join(r[m.x.j], s[m.y.j], m.x, m.y)
                                               ELSE {})}
                           ELSE IF h.jx < m.x.j
                           THEN {h.pre \o h.str \o SubSeq(r, h.jx + 1, m.x.j - 1)
                                      \o <<g>> \o Behind(m.y) :
                                    g \in Join(r[m.x.j], s[m.y.j], m.x, m.y)}
                           ELSE {}
                     [] OTHER ->
                           IF h.jx <= m.x.j
                           THEN {h.pre \o h.str \o SubSeq(r, h.jx + 1, m.x.j) \o Behind(m.y)}
                           ELSE {}
                   : m \in Match(emin, emax)}
        \* separators of the text (", " or the closing bracket) inside a string of
        \* c, or on its opening quote when the closing quote before them falls on
        \* the blank before it
        Inside ==
            {y \in Ss :
                /\ y.cls = "S"
                /\ \E x \in Sr :
                      /\ x.cls = "A" /\ x.j > 0
                      /\ IF x.j < Len(r) THEN ~whole ELSE whole
                      /\ LET far == IF whole THEN x.hi + 1 ELSE x.hi + 2
                             near == IF y.j > 1 \/ n0 > 0 THEN y.lo - 1 ELSE y.lo
                         IN  /\ Meets(near, y.hi - 1, x.lo, far - 1)
                             /\ x.lo + b1 <= k2 + 1 /\ k1 <= far - 1 + b2
                             /\ x.lo + 1 + b1 <= e2 /\ e1 - 1 <= far + b2}
        \* the blank behind a comma of the text, written behind the end of c
        Blank ==
            \E y \in Ss : \E x \in Sr :
               /\ y.cls = "E" /\ x.cls = "V" /\ (x.j > 0 \/ n0 > 0)
               /\ LET lo == Max(Max(y.lo, x.lo) + b1, Max(Max(k1, e1 - 1), n1))
                      hi == Min2(Min2(y.hi, x.hi - 1) + b2, Min2(Min2(k2, e2 - 1), n2))
                  IN  lo <= hi
        \* characters of a string that is no identifier, written where c holds
        \* the same, or blanks written behind its end
        Same ==
            \E x \in Sr :
               /\ x.cls = "S" /\ r[x.j] = Hybrid
               /\ LET lo == Max(x.lo + b1, k1)
                      hi == Min2(Min2(x.hi - 1 + b2, k2), n2)
                  IN  lo <= hi /\ lo + 1 <= e2 /\ emin <= x.hi + b2
        Kept(l) == IF c.st = "list" THEN JsonList(l)
                   ELSE Partial(l, Max(c.lo, e1 + 1), c.hi)
        Ended(l) == IF whole THEN JsonList(l)
                    ELSE Partial(l, Max(Max(e1, n1), 1), e2)
    IN  (IF n1 <= e2 + (IF whole /\ c.st = "partial" THEN 1 ELSE 0)
         THEN {Ended(h.pre \o h.str \o SubSeq(r, h.jx + 1, Len(r))) : h \in Leads}
         ELSE {})
        \cup (IF ~whole /\ n2 > emin
              THEN {Kept(l) : l \in UNION {Tails(h) : h \in Leads}}
              ELSE {})
        \cup (IF n2 > emin
              THEN {Kept(common \o SubSeq(s, 1, y.j - 1) \o <<Hybrid>> \o Behind(y)) :
                       y \in Inside}
              ELSE {})
        \cup (IF ~whole /\ k2 > 0 /\ ((c.st = "list" /\ Blank) \/ Same) THEN {c} ELSE {})
        \cup (IF \/ k2 > 0 /\ (n1 < (IF whole THEN k2 ELSE Min2(k2, e2 - 1))
                               \/ Differ(k1, kmax))
                 \/ n2 > emin /\ (whole \/ Differ(emin, emax))
              THEN {Sized("garbage", Max(n1, emin), Max(n2, e2))}
              ELSE {})

\* The bytes k to e - 1 of the text of ids written at offset k of a file that
\* holds c, short of the end of the text (0 < e): the failed write or close of a
\* text from its start (k = 0), or of its last bytes.  A text that was no JSON
\* stays none, unless it ends in the bytes written from the start
FlushPart(c, ids, k1, k2, e1, e2) ==
    CASE c.st \in {"list", "partial"} -> Spliced(c, ids, k1, k2, e1, e2, FALSE)
      [] c.st \in {"missing", "empty"} ->
            IF k2 = 0 THEN {Partial(ids, e1, e2)}
            ELSE {Sized("garbage", e1, e2)}
      [] OTHER ->
            (IF k2 = 0 /\ Size(c, "min") <= e2
             THEN {Partial(ids, IF Size(c, "min") > e1 THEN Size(c, "min") ELSE e1, e2)}
             ELSE {})
            \cup (IF c.st \in {"garbage", "undecodable"} /\ Size(c, "max") > e1
                  THEN {c} ELSE {})
            \cup (IF c.st # "garbage" /\ (k2 > 0 \/ Size(c, "max") > e1)
                  THEN {Sized("garbage", Size(c, "min"), Size(c, "max"))} ELSE {})
            \cup (IF c.st = "garbage" /\ k2 > 0 /\ Size(c, "min") < e2
                  THEN {Sized("garbage", IF Size(c, "min") > e1 THEN Size(c, "min") ELSE e1,
                              IF Size(c, "max") > e2 THEN Size(c, "max") ELSE e2)}
                  ELSE {})

\* The last bytes of the text of ids, from an offset k on (k1 <= k <= k2),
\* written at k of a file that holds c: the close after a write that put the
\* bytes before k on the disk.  Over them, if they are still there, the file
\* holds the list
FlushTail(c, ids, k1, k2) ==
    LET L1 == TextLen(ids, "min")
        L2 == TextLen(ids, "max")
    IN  CASE c.st \in {"list", "partial"} -> Spliced(c, ids, k1, k2, L1, L2, TRUE)
          [] c.st \in {"garbage", "undecodable"} ->
                (IF Size(c, "min") <= L2 THEN {JsonList(ids)} ELSE {})
                \cup {Sized("garbage", IF Size(c, "min") > L1 THEN Size(c, "min") ELSE L1,
                            IF Size(c, "max") > L2 THEN Size(c, "max") ELSE L2)}
                \cup (IF c.st = "undecodable" THEN {c} ELSE {})
          [] c.st \in {"missing", "empty"} -> {Sized("garbage", L1, L2)}
          [] OTHER -> {Sized("garbage", IF Size(c, "min") > L1 THEN Size(c, "min") ELSE L1,
                             IF Size(c, "max") > L2 THEN Size(c, "max") ELSE L2)}

\* The offsets at which the part of a text of 8192 bytes or more that a write put
\* on the disk can end when the write returns: no more than BufferSize bytes
\* are left, and one at least
TailAt(ids) ==
    [lo |-> (IF TextLen(ids, "min") > 8192 THEN TextLen(ids, "min") ELSE 8192)
            - BufferSize,
     hi |-> TextLen(ids, "max") - 1]

\* f.write(text): the text layer of the file object hands a text of 8192 bytes
\* (the size of its chunk) or more to the disk at once, a shorter one stays with it
\* until the close.  TRUE is in the set when the text can be that long, FALSE
\* when it can be shorter
WrittenThrough(ids) == {TextLen(ids, m) >= 8192 : m \in {"min", "max"}}

\* save_sent_facts writing the whole list
save_sent_facts_untruncated(fact_ids) == JsonList(fact_ids)

\* json.dumps(fact_ids[-MAX_STORED_FACTS:]): the text the save writes
save_sent_facts(fact_ids) == JsonList(LastN(fact_ids, MAX_STORED_FACTS))

save_sent_trivia(question_ids) == JsonList(LastN(question_ids, MAX_STORED_QUESTIONS))

quiz_save_sent_trivia(question_ids) ==
    JsonList(LastN(question_ids, quiz_MAX_STORED_QUESTIONS))

----------------------------------------------------------------------------
(* Schedule clock *)

Day == 24 * 60
MinutesPerHour == Day \div 24

Min(S) == CHOOSE x \in S : \A y \in S : x <= y

\* now.replace(hour=h, minute=0, second=0, microsecond=0)
ReplaceHour(t, h) == (t \div Day) * Day + h * MinutesPerHour

FACT_HOURS == <<8, 12, 16, 20>>
TRIVIA_HOURS == <<9, 13, 17, 21>>
QUIZ_HOURS == <<9, 13, 17, 21>>

\* facts_next_time with a trigger equal to the clock reading still to come
facts_next_time_not_strict(t) ==
    LET target_times == [i \in 1..Len(FACT_HOURS) |-> ReplaceHour(t, FACT_HOURS[i])]
        valid_times == {target_times[i] : i \in {j \in 1..Len(FACT_HOURS) : target_times[j] >= t}}
    IN IF valid_times # {} THEN Min(valid_times) ELSE target_times[1] + Day

\* facts.py:94-102
facts_next_time(t) ==
    LET target_times == [i \in 1..Len(FACT_HOURS) |-> ReplaceHour(t, FACT_HOURS[i])]
        valid_times == {target_times[i] : i \in {j \in 1..Len(FACT_HOURS) : target_times[j] > t}}
    IN IF valid_times # {} THEN Min(valid_times) ELSE target_times[1] + Day

\* trivia_next_time with a trigger equal to the clock reading still to come
trivia_next_time_not_strict(t) ==
    LET target_times == [i \in 1..Len(TRIVIA_HOURS) |-> ReplaceHour(t, TRIVIA_HOURS[i])]
        later == {target_times[i] : i \in {j \in 1..Len(TRIVIA_HOURS) : target_times[j] >= t}}
    IN IF later # {} THEN Min(later) ELSE target_times[1] + Day

\* facts.py:299-304
trivia_next_time(t) ==
    LET target_times == [i \in 1..Len(TRIVIA_HOURS) |-> ReplaceHour(t, TRIVIA_HOURS[i])]
        later == {target_times[i] : i \in {j \in 1..Len(TRIVIA_HOURS) : target_times[j] > t}}
    IN IF later # {} THEN Min(later) ELSE target_times[1] + Day

\* quiz.py:204-210
quiz_next_time(t) ==
    LET target_times == [i \in 1..Len(QUIZ_HOURS) |-> ReplaceHour(t, QUIZ_HOURS[i])]
    IN IF \E i \in 1..Len(QUIZ_HOURS) : target_times[i] > t
       THEN Min({target_times[i] : i \in {j \in 1..Len(QUIZ_HOURS) : target_times[j] > t}})
       ELSE target_times[1] + Day

----------------------------------------------------------------------------
(* Content fetchers *)

\* The keys a source can return: 0 is in no initial history, 1..MaxKey are in
\* every non-empty initial history.
MaxKey == 1
Keys == 0..MaxKey

Nets == {"ok", "ConnectionError", "Timeout"}

\* An item: what is posted, and its identifier.
Item(payload, id) == [payload |-> payload, id |-> id]
Post(kind, k, w) == [kind |-> kind, k |-> k, ws |-> w]
NoItem == Item(Post("none", 0, FALSE), ApiId(0))

\* What requests.get(uselessfacts...) gives: the transport outcome, whether the
\* status passes raise_for_status, the body (a JSON object, another JSON value, or
\* no JSON), and in an object the 'text' and 'id' entries.
FactResponse(net, ok, body, has_text, k, has_id) ==
    [net |-> net, http_ok |-> ok, body |-> body, has_text |-> has_text, k |-> k,
     has_id |-> has_id]

FactResponses ==
    {FactResponse(net, TRUE, "object", TRUE, 0, TRUE) : net \in Nets \ {"ok"}}
    \cup {FactResponse("ok", FALSE, "object", TRUE, 0, TRUE)}
    \cup {FactResponse("ok", TRUE, b, TRUE, 0, TRUE) : b \in {"notjson", "array"}}
    \cup {FactResponse("ok", TRUE, "object", FALSE, 0, h) : h \in BOOLEAN}
    \cup {FactResponse("ok", TRUE, "object", TRUE, k, TRUE) : k \in Keys}
    \cup {FactResponse("ok", TRUE, "object", TRUE, 0, FALSE)}

\* facts.py:78-86
fact_fallback(t) == Item(Post("honey", 0, FALSE), FallbackId(0, t))

\* fetch_daily_fact without response.raise_for_status()
fetch_daily_fact_any_status(r, t) ==
    IF r.net # "ok" THEN fact_fallback(t)
    ELSE IF r.body # "object" THEN fact_fallback(t)
    ELSE IF ~r.has_text THEN fact_fallback(t)
    ELSE Item(Post("fact", r.k, FALSE),
              IF r.has_id THEN ApiId(r.k) ELSE TimeId(t))

\* facts.py:53-86, r the response and t the reading of time.time()
fetch_daily_fact(r, t) ==
    IF r.net # "ok" THEN fact_fallback(t)                  \* requests.get raises
    ELSE IF ~r.http_ok THEN fact_fallback(t)               \* raise_for_status
    ELSE IF r.body = "notjson" THEN fact_fallback(t)       \* response.json()
    ELSE IF r.body # "object" THEN fact_fallback(t)        \* fact_data['text']: TypeError
    ELSE IF ~r.has_text THEN fact_fallback(t)              \* KeyError
    ELSE Item(Post("fact", r.k, FALSE),
              IF r.has_id THEN ApiId(r.k) ELSE TimeId(t))

\* One entry of 'results': whether it is a dict, the required field it lacks
\* ("none" if it has all five), whether its fields are strings, and its question.
QuestionData(is_dict, missing, strs, k, w) ==
    [is_dict |-> is_dict, missing |-> missing, strs |-> strs, question |-> Text(k, w)]

GoodQuestion(k, w) == QuestionData(TRUE, "none", TRUE, k, w)

required_fields == {"question", "correct_answer", "incorrect_answers", "category",
                    "difficulty"}

\* What requests.get(opentdb...) gives: transport, status, body, 'response_code'
\* (-1 when absent), whether 'results' is a list, and its entries.
TriviaResponse(net, ok, body, code, is_list, results) ==
    [net |-> net, http_ok |-> ok, body |-> body, code |-> code, is_list |-> is_list,
     results |-> results]

BadTriviaResponses(good) ==
    {TriviaResponse(net, TRUE, "object", 0, TRUE, good) : net \in Nets \ {"ok"}}
    \cup {TriviaResponse("ok", FALSE, "object", 0, TRUE, good)}
    \cup {TriviaResponse("ok", TRUE, b, 0, TRUE, good) : b \in {"notjson", "array"}}
    \cup {TriviaResponse("ok", TRUE, "object", c, TRUE, good) : c \in {-1, 1}}
    \cup {TriviaResponse("ok", TRUE, "object", 0, FALSE, good)}
    \cup {TriviaResponse("ok", TRUE, "object", 0, TRUE, <<>>)}
    \cup {TriviaResponse("ok", TRUE, "object", 0, TRUE,
              [good EXCEPT ![Len(good)] = QuestionData(FALSE, "none", TRUE, 0, FALSE)])}
    \cup {TriviaResponse("ok", TRUE, "object", 0, TRUE,
              [good EXCEPT ![Len(good)] = QuestionData(TRUE, f, TRUE, 0, FALSE)]) :
              f \in required_fields}
    \cup {TriviaResponse("ok", TRUE, "object", 0, TRUE,
              [good EXCEPT ![Len(good)] = QuestionData(TRUE, "none", FALSE, 0, FALSE)])}

TriviaResponses ==
    BadTriviaResponses(<<GoodQuestion(0, FALSE)>>)
    \cup {TriviaResponse("ok", TRUE, "object", 0, TRUE, <<GoodQuestion(k, w)>>) :
              k \in Keys, w \in BOOLEAN}

\* facts.py:283-291
trivia_fallback(t) == Item(Post("rising sun", 0, FALSE), StampFallbackId(t))

\* facts.py:218-291, t the reading of datetime.now().timestamp()
fetch_trivia_question(r, t) ==
    IF r.net # "ok" THEN trivia_fallback(t)
    ELSE IF ~r.http_ok THEN trivia_fallback(t)
    ELSE IF r.body = "notjson" THEN trivia_fallback(t)
    ELSE IF r.body # "object" \/ r.code # 0 THEN trivia_fallback(t)   \* line 233
    ELSE IF ~r.is_list THEN trivia_fallback(t)                        \* line 238
    ELSE IF r.results = <<>> THEN trivia_fallback(t)                  \* line 240
    ELSE LET question_data == r.results[1] IN
         IF ~question_data.is_dict THEN trivia_fallback(t)            \* line 244
         ELSE IF question_data.missing # "none" THEN trivia_fallback(t)
         ELSE IF ~question_data.strs THEN trivia_fallback(t)          \* unquote: TypeError
         ELSE LET clean == clean_question(question_data.question) IN
              Item(Post("question", clean.k, clean.ws), generate_question_id(clean))

QUESTIONS_PER_POST == 4

\* quiz.py:116-150
quiz_fallback(t) ==
    [i \in 1..4 |-> Item(Post("static", i, FALSE), FallbackId(i, t))]

\* quiz.py:88-110: one entry decoded; the identifier hashes the question as decoded
quiz_decode(question_data) ==
    Item(Post("question", question_data.question.k, question_data.question.ws),
         quiz_generate_question_id(question_data.question))

\* quiz.py:65-150
fetch_trivia_questions(r, t) ==
    IF r.net # "ok" THEN quiz_fallback(t)
    ELSE IF ~r.http_ok THEN quiz_fallback(t)
    ELSE IF r.body = "notjson" THEN quiz_fallback(t)
    ELSE IF r.body # "object" \/ r.code = -1 THEN quiz_fallback(t)    \* data['response_code']
    ELSE IF r.code # 0 \/ r.results = <<>> THEN quiz_fallback(t)      \* line 84
    ELSE IF ~r.is_list THEN quiz_fallback(t)                          \* iterating it: TypeError
    ELSE IF \E i \in 1..Len(r.results) :
                \/ ~r.results[i].is_dict
                \/ r.results[i].missing # "none"
                \/ ~r.results[i].strs
         THEN quiz_fallback(t)
    ELSE [i \in 1..Len(r.results) |-> quiz_decode(r.results[i])]

----------------------------------------------------------------------------
(* Coroutines *)

Scheduled == {"send_scheduled_facts", "send_scheduled_trivia", "quiz_send_scheduled_trivia"}
Handlers == {"instant_facts_handler", "instant_trivia_handler", "manual_trivia"}
Procs == Scheduled \cup Handlers
Single == Procs \ {"quiz_send_scheduled_trivia", "manual_trivia"}

\* The module a coroutine belongs to: facts.py:1-171, facts.py:176-378, quiz.py.
Group(p) ==
    CASE p \in {"send_scheduled_facts", "instant_facts_handler"} -> "facts"
      [] p \in {"send_scheduled_trivia", "instant_trivia_handler"} -> "trivia"
      [] p \in {"quiz_send_scheduled_trivia", "manual_trivia"} -> "quiz"
Groups == {"facts", "trivia", "quiz"}

FileOf(p) == IF Group(p) = "facts" THEN SENT_FACTS_FILE ELSE SENT_TRIVIA_FILE

LoadOf(p, c) ==
    CASE Group(p) = "facts" -> load_sent_facts(c)
      [] Group(p) = "trivia" -> load_sent_trivia(c)
      [] Group(p) = "quiz" -> quiz_load_sent_trivia(c)

SaveOf(p, ids) ==
    CASE Group(p) = "facts" -> save_sent_facts(ids)
      [] Group(p) = "trivia" -> save_sent_trivia(ids)
      [] Group(p) = "quiz" -> quiz_save_sent_trivia(ids)

NextTimeOf(p, t) ==
    CASE Group(p) = "facts" -> facts_next_time(t)
      [] Group(p) = "trivia" -> trivia_next_time(t)
      [] Group(p) = "quiz" -> quiz_next_time(t)

\* The responses of a source that works: complete and well-formed
Complete(r) ==
    /\ r.net = "ok" /\ r.http_ok /\ r.body = "object"
    /\ IF "has_text" \in DOMAIN r
       THEN r.has_text /\ r.has_id
       ELSE /\ r.code = 0 /\ r.is_list /\ r.results # <<>>
            /\ \A i \in 1..Len(r.results) :
                   r.results[i].is_dict /\ r.results[i].missing = "none" /\ r.results[i].strs

Upstream(all) == IF faults THEN all ELSE {r \in all : Complete(r)}

ResponsesOf(p) == Upstream(IF Group(p) = "facts" THEN FactResponses ELSE TriviaResponses)

FetchOf(p, r, t) ==
    IF Group(p) = "facts" THEN fetch_daily_fact(r, t) ELSE fetch_trivia_question(r, t)

\* The wall clock moves in steps of TickMinutes, from Start, for at most MaxTicks
\* steps; a handler serves at most MaxCommands commands.
Start == 7 * 60
TickMinutes == 2 * 60
MaxTicks == 3
MaxCommands == 1

\* time.time(), datetime.now().timestamp(): the wall clock at the step of the model
Reading(t) == t

\* `x in sent_ids`: membership in a list, key lookup in a dict; None raises TypeError
InRaises(v) == v.t = "None"
In(id, v) == v.t \in {"list", "dict"} /\ \E i \in 1..Len(v.ids) : v.ids[i] = id

\* Where control goes when a step of the try block raises: the scheduled loops of
\* facts.py only log (facts.py:131-132, 335-336); the others report first.
ExceptPc(p) ==
    CASE p \in {"send_scheduled_facts", "send_scheduled_trivia"} -> "top"
      [] p = "quiz_send_scheduled_trivia" -> "except_notify"
      [] OTHER -> "except"

\* The step `step` of p's try block raises.
Raise(p, step) ==
    /\ exc' = [exc EXCEPT ![p] = step]
    /\ pc' = [pc EXCEPT ![p] = ExceptPc(p)]
    /\ running' = "none"

\* p's cycle ends without an exception leaving it.
Finish(p) ==
    /\ pc' = [pc EXCEPT ![p] = IF p \in Scheduled THEN "top" ELSE "idle"]
    /\ result' = [result EXCEPT ![p] = "returned"]

\* An exception leaves p: a scheduled task ends, a handler call fails.
Crash(p) ==
    /\ pc' = [pc EXCEPT ![p] = IF p \in Scheduled THEN "dead" ELSE "idle"]
    /\ result' = [result EXCEPT ![p] = "raised"]

\* The locals of a cycle, and what is recorded of it, before it starts.
BeginCycle(p) ==
    /\ sent_ids' = [sent_ids EXCEPT ![p] = PyList(<<>>)]
    /\ item' = [item EXCEPT ![p] = NoItem]
    /\ retry' = [retry EXCEPT ![p] = 0]
    /\ fetched' = [fetched EXCEPT ![p] = <<>>]
    /\ exc' = [exc EXCEPT ![p] = "none"]
    /\ posted' = [posted EXCEPT ![p] = <<>>]
    /\ written' = [written EXCEPT ![p] = <<>>]
    /\ notified' = [notified EXCEPT ![p] = {}]
    /\ result' = [result EXCEPT ![p] = "none"]
    /\ questions' = [questions EXCEPT ![p] = <<>>]
    /\ qi' = [qi EXCEPT ![p] = 0]
    /\ new_ids' = [new_ids EXCEPT ![p] = <<>>]

\* while True: now = datetime.now(tz); ...; next_time = ...   (up to the sleep)
LoopTop(p) ==
    /\ p \in Scheduled /\ pc[p] = "top" /\ running = "none"
    /\ next_time' = [next_time EXCEPT ![p] = NextTimeOf(p, now)]
    /\ pc' = [pc EXCEPT ![p] = "sleep"]
    /\ BeginCycle(p)
    /\ UNCHANGED <<now, until, faults, buffered, file, running, fired, cycles, probe>>

\* await asyncio.sleep(sleep_seconds) returns: not before the trigger
Wake(p) ==
    /\ p \in Scheduled /\ pc[p] = "sleep" /\ running = "none"
    /\ now >= next_time[p]
    /\ fired' = [fired EXCEPT ![p] = @ \cup {next_time[p]}]
    /\ cycles' = [cycles EXCEPT ![p] = @ + 1]
    /\ pc' = [pc EXCEPT ![p] = "load"]
    /\ UNCHANGED <<now, until, faults, buffered, file, running, next_time, sent_ids, item, retry, fetched,
                   exc, posted, written, notified, result, probe, batch>>

\* The admin command arrives: processing_msg = await message.reply(...)
Command(p) ==
    /\ p \in Handlers /\ pc[p] = "idle" /\ running = "none"
    /\ cycles[p] < MaxCommands
    /\ BeginCycle(p)
    /\ cycles' = [cycles EXCEPT ![p] = @ + 1]
    /\ pc' = [pc EXCEPT ![p] = "reply"]
    /\ UNCHANGED <<now, until, faults, buffered, file, running, next_time, fired, probe>>

Reply(p) ==
    /\ p \in Handlers /\ pc[p] = "reply" /\ running = "none"
    /\ \/ /\ pc' = [pc EXCEPT ![p] = "load"]
          /\ UNCHANGED <<exc, running>>
       \/ faults /\ Raise(p, "reply")
    /\ UNCHANGED <<now, until, faults, buffered, file, next_time, sent_ids, item, retry, fetched,
                   posted, written, notified, result, fired, cycles, probe, batch>>

\* sent_ids = await load_sent_...(): aiofiles.open(FILE, "r") returns.  A missing
\* file is FileNotFoundError, caught: load returns [] and the cycle goes on to its
\* fetch; any other failure of the open leaves load
LoadOpen(p) ==
    /\ pc[p] = "load" /\ running = "none"
    /\ \/ /\ file[FileOf(p)].st = "missing"
          /\ sent_ids' = [sent_ids EXCEPT ![p] = LoadOf(p, file[FileOf(p)]).val]
          /\ pc' = [pc EXCEPT ![p] = "fetch"]
          /\ running' = p
          /\ UNCHANGED exc
       \/ /\ file[FileOf(p)].st \notin {"missing", "unreadable"}
          /\ pc' = [pc EXCEPT ![p] = "load_read"]
          /\ UNCHANGED <<sent_ids, exc, running>>
       \/ /\ faults \/ file[FileOf(p)].st = "unreadable"
          /\ Raise(p, "load") /\ UNCHANGED sent_ids
    /\ UNCHANGED <<now, until, faults, buffered, file, next_time, item, retry, fetched, posted, written,
                   notified, result, fired, cycles, probe, batch>>

\* content = await f.read() returns and json.loads(content) is evaluated: what load
\* will return is fixed here, from the file as it is now (kept in sent_ids, which
\* the caller assigns when the close has returned).  A read that raises (bytes that
\* are not UTF-8, an I/O error) leaves the `async with` through its close: the
\* coroutine waits there with the exception in flight (exc[p] = "load")
LoadRead(p) ==
    /\ pc[p] = "load_read" /\ running = "none"
    /\ LET r == LoadOf(p, file[FileOf(p)]) IN
       \/ /\ r.raised = "none"
          /\ sent_ids' = [sent_ids EXCEPT ![p] = r.val]
          /\ UNCHANGED exc
       \/ /\ faults \/ r.raised # "none"
          /\ exc' = [exc EXCEPT ![p] = "load"]
          /\ UNCHANGED sent_ids
    /\ pc' = [pc EXCEPT ![p] = "load_close"]
    /\ UNCHANGED <<now, until, faults, buffered, file, running, next_time, item, retry, fetched, posted,
                   written, notified, result, fired, cycles, probe, batch>>

\* The close at the end of the `async with` returns: the cycle goes on to its fetch,
\* or the exception of the read leaves load; a close that fails leaves load too,
\* and what was read is never assigned to the caller's sent_ids
LoadClose(p) ==
    /\ pc[p] = "load_close" /\ running = "none"
    /\ \/ /\ exc[p] = "none"
          /\ pc' = [pc EXCEPT ![p] = "fetch"]
          /\ running' = p
          /\ UNCHANGED <<exc, sent_ids>>
       \/ /\ faults \/ exc[p] # "none"
          /\ sent_ids' = [sent_ids EXCEPT ![p] = PyList(<<>>)]
          /\ Raise(p, "load")
    /\ UNCHANGED <<now, until, faults, buffered, file, next_time, item, retry, fetched,
                   posted, written, notified, result, fired, cycles, probe, batch>>

\* AfterFetch with the loop going on whatever the history holds
AfterFetch_ignores_history(p, id, n) ==
    IF InRaises(sent_ids[p]) THEN Raise(p, "in")
    ELSE IF n < 5
    THEN pc' = [pc EXCEPT ![p] = "refetch"] /\ UNCHANGED <<exc, running>>
    ELSE pc' = [pc EXCEPT ![p] = "send"] /\ running' = "none" /\ UNCHANGED exc

\* AfterFetch with the loop stopping one retry early
AfterFetch_stops_early(p, id, n) ==
    IF InRaises(sent_ids[p]) THEN Raise(p, "in")
    ELSE IF In(id, sent_ids[p]) /\ n < 4
    THEN pc' = [pc EXCEPT ![p] = "refetch"] /\ UNCHANGED <<exc, running>>
    ELSE pc' = [pc EXCEPT ![p] = "send"] /\ running' = "none" /\ UNCHANGED exc

\* The test of `while fact_id in sent_ids and retry < 5` after a fetch that left
\* identifier id and counter n.
AfterFetch(p, id, n) ==
    IF InRaises(sent_ids[p]) THEN Raise(p, "in")
    ELSE IF In(id, sent_ids[p]) /\ n < 5
    THEN pc' = [pc EXCEPT ![p] = "refetch"] /\ UNCHANGED <<exc, running>>
    ELSE pc' = [pc EXCEPT ![p] = "send"] /\ running' = "none" /\ UNCHANGED exc

\* fact_message, fact_id = fetch_daily_fact()        (the call before the loop)
Fetch(p) ==
    /\ p \in Single /\ pc[p] = "fetch" /\ running = p
    /\ \E r \in ResponsesOf(p) :
         /\ LET it == FetchOf(p, r, Reading(now)) IN
            /\ item' = [item EXCEPT ![p] = it]
            /\ fetched' = [fetched EXCEPT ![p] = Append(@, it)]
            /\ AfterFetch(p, it.id, retry[p])
    /\ UNCHANGED <<now, until, faults, buffered, file, next_time, sent_ids, retry, posted, written, notified,
                   result, fired, cycles, probe, batch>>

\* The body of the loop: fetch again, retry += 1
Refetch(p) ==
    /\ p \in Single /\ pc[p] = "refetch" /\ running = p
    /\ \E r \in ResponsesOf(p) :
         /\ LET it == FetchOf(p, r, Reading(now)) IN
            /\ item' = [item EXCEPT ![p] = it]
            /\ fetched' = [fetched EXCEPT ![p] = Append(@, it)]
            /\ retry' = [retry EXCEPT ![p] = @ + 1]
            /\ AfterFetch(p, it.id, retry[p] + 1)
    /\ UNCHANGED <<now, until, faults, buffered, file, next_time, sent_ids, posted, written, notified,
                   result, fired, cycles, probe, batch>>

\* A single-item cycle that puts the new identifier in front of the history
Send_prepends(p) ==
    /\ p \in Single /\ pc[p] = "send" /\ running = "none"
    /\ \/ /\ posted' = [posted EXCEPT ![p] = Append(@, item[p])]
          /\ IF sent_ids[p].t # "list"
             THEN Raise(p, "append") /\ UNCHANGED <<sent_ids, written>>
             ELSE /\ written' = [written EXCEPT ![p] = <<item[p].id>> \o sent_ids[p].ids]
                  /\ sent_ids' = [sent_ids EXCEPT ![p] =
                        IF Group(p) = "facts" THEN PyList(<<item[p].id>> \o @.ids) ELSE @]
                  /\ pc' = [pc EXCEPT ![p] = "save_open"]
                  /\ UNCHANGED <<exc, running>>
       \/ faults /\ Raise(p, "send") /\ UNCHANGED <<posted, sent_ids, written>>
    /\ UNCHANGED <<now, until, faults, buffered, file, next_time, item, retry, fetched, notified,
                   result, fired, cycles, probe, batch>>

\* await bot.send_message(FACTS_CHANNEL, ...) / send_poll(TRIVIA_CHANNEL, ...), then
\* sent_ids.append(fact_id) / sent_ids + [qid] up to the open of the save
Send(p) ==
    /\ p \in Single /\ pc[p] = "send" /\ running = "none"
    /\ \/ /\ posted' = [posted EXCEPT ![p] = Append(@, item[p])]
          /\ IF sent_ids[p].t # "list"
             THEN Raise(p, "append") /\ UNCHANGED <<sent_ids, written>>
             ELSE /\ written' = [written EXCEPT ![p] = Append(sent_ids[p].ids, item[p].id)]
                  /\ sent_ids' = [sent_ids EXCEPT ![p] =
                        IF Group(p) = "facts" THEN PyList(Append(@.ids, item[p].id)) ELSE @]
                  /\ pc' = [pc EXCEPT ![p] = "save_open"]
                  /\ UNCHANGED <<exc, running>>
       \/ faults /\ Raise(p, "send") /\ UNCHANGED <<posted, sent_ids, written>>
    /\ UNCHANGED <<now, until, faults, buffered, file, next_time, item, retry, fetched, notified,
                   result, fired, cycles, probe, batch>>

\* What waits in the file objects once coroutine p has written to its file: the
\* last bytes another coroutine has still to write there are no longer behind
\* the bytes its write put on the disk
Moved(p) ==
    [q \in Procs |-> IF q # p /\ FileOf(q) = FileOf(p) /\ buffered[q] = "tail"
                     THEN "apart" ELSE buffered[q]]

\* async with aiofiles.open(FILE, "w") as f: the open truncates the file
SaveOpen(p) ==
    /\ pc[p] = "save_open" /\ running = "none"
    /\ \/ /\ open_w(file[FileOf(p)]).raised = "none"
          /\ file' = [file EXCEPT ![FileOf(p)] = open_w(@).val]
          /\ buffered' = Moved(p)
          /\ pc' = [pc EXCEPT ![p] = "save_write"]
          /\ UNCHANGED <<exc, running>>
       \/ /\ faults \/ open_w(file[FileOf(p)]).raised # "none"
          /\ Raise(p, "save") /\ UNCHANGED <<file, buffered>>
    /\ UNCHANGED <<now, until, faults, next_time, sent_ids, item, retry, fetched, posted,
                   written, notified, result, fired, cycles, probe, batch>>

\* await f.write(json.dumps(ids[-MAX:])) returns: a text shorter than the chunk
\* waits in the file object, a longer one is on the disk.  A disk that takes a
\* part of the text only (e bytes) and then fails: when more than BufferSize
\* bytes are left the write raises, and leaves the `async with` through its close
\* (the coroutine waits there with the exception in flight, exc[p] = "save");
\* when no more are left, they wait in the buffer and the write returns
SaveWrite(p) ==
    /\ pc[p] = "save_write" /\ running = "none"
    /\ \E ids \in {SaveOf(p, written[p]).ids} :
       \/ /\ FALSE \in WrittenThrough(ids)
          /\ buffered' = [buffered EXCEPT ![p] = "text"]
          /\ UNCHANGED <<file, exc>>
       \/ /\ TRUE \in WrittenThrough(ids)
          /\ \E c \in Flush(file[FileOf(p)], ids) :
                file' = [file EXCEPT ![FileOf(p)] = c]
          /\ buffered' = Moved(p)
          /\ UNCHANGED exc
       \/ /\ faults /\ TRUE \in WrittenThrough(ids)
          /\ \/ UNCHANGED <<file, buffered>>
             \/ /\ \E c \in FlushPart(file[FileOf(p)], ids, 0, 0,
                                      1, TextLen(ids, "max") - BufferSize - 1) :
                      file' = [file EXCEPT ![FileOf(p)] = c]
                /\ buffered' = Moved(p)
          /\ exc' = [exc EXCEPT ![p] = "save"]
       \/ /\ faults /\ TRUE \in WrittenThrough(ids)
          /\ \E c \in FlushPart(file[FileOf(p)], ids, 0, 0,
                                TailAt(ids).lo, TailAt(ids).hi) :
                file' = [file EXCEPT ![FileOf(p)] = c]
          /\ buffered' = [Moved(p) EXCEPT ![p] = "tail"]
          /\ UNCHANGED exc
    /\ pc' = [pc EXCEPT ![p] = "save_close"]
    /\ UNCHANGED <<now, until, faults, running, next_time, sent_ids, item, retry, fetched,
                   posted, written, notified, result, fired, cycles, probe, batch>>

\* leaving the `async with`: what waits in the file object is written, a text at
\* the start of the file as it is now, the last bytes of one at the offset the
\* write came to (behind its first bytes, if the file was not written since:
\* as if the whole text were written), and the file closed; a close that fails
\* has written nothing or a part.  After a write that raised nothing is left to
\* write, and the exception of the write leaves save
SaveClose(p) ==
    /\ pc[p] = "save_close" /\ running = "none"
    /\ \E ids \in {SaveOf(p, written[p]).ids} :
       \/ /\ exc[p] = "none"
          /\ \E c \in CASE buffered[p] \in {"text", "tail"} -> Flush(file[FileOf(p)], ids)
                        [] buffered[p] = "apart" ->
                              FlushTail(file[FileOf(p)], ids, TailAt(ids).lo, TailAt(ids).hi)
                        [] OTHER -> {file[FileOf(p)]} :
                file' = [file EXCEPT ![FileOf(p)] = c]
          /\ buffered' = [(IF buffered[p] = "none" THEN buffered ELSE Moved(p))
                               EXCEPT ![p] = "none"]
          /\ pc' = [pc EXCEPT ![p] = IF p \in Handlers THEN "ack" ELSE "notify"]
          /\ UNCHANGED <<exc, running>>
       \/ /\ exc[p] # "none"
          /\ UNCHANGED file
          /\ buffered' = [buffered EXCEPT ![p] = "none"]
          /\ Raise(p, "save")
       \/ /\ faults /\ exc[p] = "none"
          /\ \/ /\ UNCHANGED file
                /\ buffered' = [buffered EXCEPT ![p] = "none"]
             \/ /\ buffered[p] # "none"
                /\ \E c \in CASE buffered[p] = "text" ->
                                    FlushPart(file[FileOf(p)], ids, 0, 0,
                                              1, (IF TextLen(ids, "max") < 8192
                                                  THEN TextLen(ids, "max") ELSE 8191) - 1)
                              [] buffered[p] = "tail" ->
                                    FlushPart(file[FileOf(p)], ids, 0, 0,
                                              TailAt(ids).lo + 1, TextLen(ids, "max") - 1)
                              [] OTHER ->
                                    FlushPart(file[FileOf(p)], ids,
                                              TailAt(ids).lo, TailAt(ids).hi,
                                              TailAt(ids).lo + 1, TextLen(ids, "max") - 1) :
                      file' = [file EXCEPT ![FileOf(p)] = c]
                /\ buffered' = [Moved(p) EXCEPT ![p] = "none"]
          /\ Raise(p, "save")
    /\ UNCHANGED <<now, until, faults, next_time, sent_ids, item, retry, fetched, posted,
                   written, notified, result, fired, cycles, probe, batch>>

\* await processing_msg.edit("✅ ...") / client.send_message(message.chat.id, "✅ ...")
Ack(p) ==
    /\ p \in Handlers /\ pc[p] = "ack" /\ running = "none"
    /\ \/ /\ notified' = [notified EXCEPT ![p] = @ \cup {"admin_ok"}]
          /\ pc' = [pc EXCEPT ![p] = "notify"]
          /\ UNCHANGED <<exc, running>>
       \/ faults /\ Raise(p, "ack") /\ UNCHANGED notified
    /\ UNCHANGED <<now, until, faults, buffered, file, next_time, sent_ids, item, retry, fetched, posted,
                   written, result, fired, cycles, probe, batch>>

\* await send_message(LOG_CHANNEL, ...) at the end of the try block
Notify(p) ==
    /\ pc[p] = "notify" /\ running = "none"
    /\ \/ /\ notified' = [notified EXCEPT ![p] = @ \cup {"ops_ok"}]
          /\ Finish(p)
          /\ UNCHANGED <<exc, running>>
       \/ faults /\ Raise(p, "notify") /\ UNCHANGED <<notified, result>>
    /\ UNCHANGED <<now, until, faults, buffered, file, next_time, sent_ids, item, retry, fetched, posted,
                   written, fired, cycles, probe, batch>>

\* except Exception as e: the report to the admin.  instant_facts_handler edits
\* processing_msg, which is unbound when message.reply raised (UnboundLocalError);
\* instant_trivia_handler sends a message and stops there; manual_trivia edits
\* processing_msg or replies.
ExceptReport(p) ==
    /\ p \in Handlers /\ pc[p] = "except" /\ running = "none"
    /\ \/ /\ ~(p = "instant_facts_handler" /\ exc[p] = "reply")
          /\ notified' = [notified EXCEPT ![p] = @ \cup {"admin_error"}]
          /\ IF p = "instant_trivia_handler"
             THEN Finish(p)
             ELSE pc' = [pc EXCEPT ![p] = "except_notify"] /\ UNCHANGED result
       \/ /\ faults \/ (p = "instant_facts_handler" /\ exc[p] = "reply")
          /\ Crash(p) /\ UNCHANGED notified
    /\ UNCHANGED <<now, until, faults, buffered, file, running, next_time, sent_ids, item, retry, fetched,
                   exc, posted, written, fired, cycles, probe, batch>>

\* except Exception as e: await send_message(LOG_CHANNEL, "... Failed ...")
ExceptNotify(p) ==
    /\ pc[p] = "except_notify" /\ running = "none"
    /\ \/ /\ notified' = [notified EXCEPT ![p] = @ \cup {"ops_failure"}]
          /\ Finish(p)
       \/ faults /\ Crash(p) /\ UNCHANGED notified
    /\ UNCHANGED <<now, until, faults, buffered, file, running, next_time, sent_ids, item, retry, fetched,
                   exc, posted, written, fired, cycles, probe, batch>>

\* The wall clock advances by one step while no coroutine holds the event loop:
\* the loops sleep, or a cycle waits at one of its awaits.
Tick ==
    /\ running = "none"
    /\ now + TickMinutes <= until
    /\ now' = now + TickMinutes
    /\ UNCHANGED <<until, faults, buffered, file, running, pc, next_time, sent_ids, item, retry, fetched, exc,
                   posted, written, notified, result, fired, cycles, probe, batch>>

----------------------------------------------------------------------------
(* The batch of quiz.py *)

Batch == {"quiz_send_scheduled_trivia", "manual_trivia"}

\* The sequences of four keys a response can carry: the first and the last question
\* are any of Keys (so the two can be the same question, or questions of the
\* history), those in between are questions of their own, in no history
KeyRows ==
    {ks \in [1..QUESTIONS_PER_POST -> (1 - QUESTIONS_PER_POST)..MaxKey] :
        /\ ks[1] \in Keys /\ ks[QUESTIONS_PER_POST] \in Keys
        /\ \A i \in 2..(QUESTIONS_PER_POST - 1) : ks[i] = 1 - i}

GoodRow(ks, w) ==
    [i \in 1..QUESTIONS_PER_POST |-> GoodQuestion(ks[i], IF i = 1 THEN w ELSE FALSE)]

\* The responses to the request for four questions.  The first question comes with
\* added white space only as the question of the history.
QuizResponses ==
    BadTriviaResponses(GoodRow([i \in 1..QUESTIONS_PER_POST |-> 1 - i], FALSE))
    \cup {TriviaResponse("ok", TRUE, "object", 0, TRUE, GoodRow(ks, FALSE)) : ks \in KeyRows}
    \cup {TriviaResponse("ok", TRUE, "object", 0, TRUE, GoodRow(ks, TRUE)) :
              ks \in {r \in KeyRows : r[1] = 1 /\ r[QUESTIONS_PER_POST] = 0}}

\* quiz.py:182  fetch_trivia_questions(1): the function takes no argument, the call
\* raises TypeError before its body runs
replacement_fetch == Raised("TypeError")

Ids(items) == [i \in 1..Len(items) |-> items[i].id]

\* questions = fetch_trivia_questions(), then process_questions up to its loop
QuizFetch(p) ==
    /\ p \in Batch /\ pc[p] = "fetch" /\ running = p
    /\ \E r \in Upstream(QuizResponses) :
         /\ LET qs == fetch_trivia_questions(r, Reading(now)) IN
            /\ questions' = [questions EXCEPT ![p] = qs]
            /\ fetched' = [fetched EXCEPT ![p] = qs]
    /\ qi' = [qi EXCEPT ![p] = 1]
    /\ new_ids' = [new_ids EXCEPT ![p] = <<>>]
    /\ pc' = [pc EXCEPT ![p] = "item"]
    /\ UNCHANGED <<now, until, faults, buffered, file, running, next_time, sent_ids, item, retry, exc, posted,
                   written, notified, result, fired, cycles, probe>>

\* for question_data in questions: ... retry = 0; after the last one the caller's
\* `if new_ids:` up to its next await
QuizItem(p) ==
    /\ p \in Batch /\ pc[p] = "item" /\ running = p
    /\ IF qi[p] <= Len(questions[p])
       THEN /\ item' = [item EXCEPT ![p] = questions[p][qi[p]]]
            /\ retry' = [retry EXCEPT ![p] = 0]
            /\ pc' = [pc EXCEPT ![p] = "while"]
            /\ UNCHANGED <<running, exc, sent_ids, written>>
       ELSE /\ UNCHANGED <<item, retry>>
            /\ IF new_ids[p] = <<>>
               THEN /\ pc' = [pc EXCEPT ![p] =
                           IF p \in Handlers THEN "none_sent" ELSE "none_notify"]
                    /\ running' = "none"
                    /\ UNCHANGED <<exc, sent_ids, written>>
               ELSE IF sent_ids[p].t # "list"
               THEN Raise(p, "append") /\ UNCHANGED <<sent_ids, written>>
               ELSE /\ sent_ids' = [sent_ids EXCEPT ![p] = PyList(@.ids \o new_ids[p])]
                    /\ written' = [written EXCEPT ![p] = sent_ids[p].ids \o new_ids[p]]
                    /\ pc' = [pc EXCEPT ![p] = "save_open"]
                    /\ running' = "none"
                    /\ UNCHANGED exc
    /\ UNCHANGED <<now, until, faults, buffered, file, next_time, questions, qi, new_ids, fetched, posted,
                   notified, result, fired, cycles, probe>>

\* `if qid not in sent_ids:` after the while loop: on to the poll, or to the next item
AfterWhile(p) ==
    IF ~In(item[p].id, sent_ids[p])
    THEN /\ pc' = [pc EXCEPT ![p] = "poll"]
         /\ running' = "none"
         /\ UNCHANGED qi
    ELSE /\ pc' = [pc EXCEPT ![p] = "item"]
         /\ qi' = [qi EXCEPT ![p] = @ + 1]
         /\ UNCHANGED running

\* The test of `while qid in sent_ids and retry < 3`
QuizWhile(p) ==
    /\ p \in Batch /\ pc[p] = "while" /\ running = p
    /\ IF InRaises(sent_ids[p]) THEN Raise(p, "in") /\ UNCHANGED qi
       ELSE IF In(item[p].id, sent_ids[p]) /\ retry[p] < 3
       THEN pc' = [pc EXCEPT ![p] = "refetch"] /\ UNCHANGED <<exc, running, qi>>
       ELSE AfterWhile(p) /\ UNCHANGED exc
    /\ UNCHANGED <<now, until, faults, buffered, file, next_time, sent_ids, item, retry, questions,
                   new_ids, fetched, posted, written, notified, result, fired, cycles,
                   probe>>

\* A retry loop whose `except` goes round again instead of leaving the loop
Retry_no_break(p, new_questions) ==
    /\ p \in Batch /\ pc[p] = "refetch" /\ running = p
    /\ pc' = [pc EXCEPT ![p] = "while"]
    /\ UNCHANGED <<item, retry, running, qi>>
    /\ UNCHANGED <<now, until, faults, buffered, file, next_time, sent_ids, questions, new_ids,
                   fetched, exc, posted, written, notified, result, fired, cycles, probe>>

\* The body of the while loop, quiz.py:181-189, for what the call at line 182
\* gives: `if new_questions:` takes the first entry and counts the retry, an empty
\* list changes nothing, an exception leaves the loop
Retry(p, new_questions) ==
    /\ p \in Batch /\ pc[p] = "refetch" /\ running = p
    /\ IF new_questions.raised # "none"
       THEN AfterWhile(p) /\ UNCHANGED <<item, retry>>                 \* break
       ELSE IF new_questions.val.ids # <<>>
       THEN /\ item' = [item EXCEPT ![p] = new_questions.val.ids[1]]
            /\ retry' = [retry EXCEPT ![p] = @ + 1]
            /\ pc' = [pc EXCEPT ![p] = "while"]
            /\ UNCHANGED <<running, qi>>
       ELSE /\ pc' = [pc EXCEPT ![p] = "while"]
            /\ UNCHANGED <<item, retry, running, qi>>
    /\ UNCHANGED <<now, until, faults, buffered, file, next_time, sent_ids, questions, new_ids, fetched,
                   exc, posted, written, notified, result, fired, cycles, probe>>

\* The body of the while loop: the replacement fetch inside its try/except
QuizRefetch(p) == Retry(p, replacement_fetch)

\* A send_quiz_poll whose failure is not seen: the identifier is recorded although
\* no poll was sent.
QuizPoll_records_undispatched(p) ==
    /\ p \in Batch /\ pc[p] = "poll" /\ running = "none"
    /\ \/ /\ new_ids' = [new_ids EXCEPT ![p] = Append(@, item[p].id)]
          /\ posted' = [posted EXCEPT ![p] = Append(@, item[p])]
          /\ pc' = [pc EXCEPT ![p] = "pause"]
          /\ UNCHANGED <<running, qi>>
       \/ /\ faults
          /\ new_ids' = [new_ids EXCEPT ![p] = Append(@, item[p].id)]
          /\ qi' = [qi EXCEPT ![p] = @ + 1]
          /\ pc' = [pc EXCEPT ![p] = "item"]
          /\ running' = p
          /\ UNCHANGED posted
    /\ UNCHANGED <<now, until, faults, buffered, file, next_time, sent_ids, item, retry, questions,
                   fetched, exc, written, notified, result, fired, cycles, probe>>

\* poll = await send_quiz_poll(...): an exception of send_poll is caught there and
\* None returned; `if poll:` records the identifier
QuizPoll(p) ==
    /\ p \in Batch /\ pc[p] = "poll" /\ running = "none"
    /\ \/ /\ new_ids' = [new_ids EXCEPT ![p] = Append(@, item[p].id)]
          /\ posted' = [posted EXCEPT ![p] = Append(@, item[p])]
          /\ pc' = [pc EXCEPT ![p] = "pause"]
          /\ UNCHANGED <<running, qi>>
       \/ /\ faults
          /\ qi' = [qi EXCEPT ![p] = @ + 1]
          /\ pc' = [pc EXCEPT ![p] = "item"]
          /\ running' = p
          /\ UNCHANGED <<new_ids, posted>>
    /\ UNCHANGED <<now, until, faults, buffered, file, next_time, sent_ids, item, retry, questions,
                   fetched, exc, written, notified, result, fired, cycles, probe>>

\* await asyncio.sleep(1), then the next item
QuizPause(p) ==
    /\ p \in Batch /\ pc[p] = "pause" /\ running = "none"
    /\ qi' = [qi EXCEPT ![p] = @ + 1]
    /\ pc' = [pc EXCEPT ![p] = "item"]
    /\ running' = p
    /\ UNCHANGED <<now, until, faults, buffered, file, next_time, sent_ids, item, retry, questions,
                   new_ids, fetched, exc, posted, written, notified, result, fired,
                   cycles, probe>>

\* manual_trivia, else branch: await processing_msg.edit("❌ Failed to send any polls")
NoneSent(p) ==
    /\ p = "manual_trivia" /\ pc[p] = "none_sent" /\ running = "none"
    /\ \/ /\ notified' = [notified EXCEPT ![p] = @ \cup {"admin_failed"}]
          /\ pc' = [pc EXCEPT ![p] = "none_notify"]
          /\ UNCHANGED <<exc, running>>
       \/ faults /\ Raise(p, "ack") /\ UNCHANGED notified
    /\ UNCHANGED <<now, until, faults, buffered, file, next_time, sent_ids, item, retry, fetched, posted,
                   written, result, fired, cycles, probe, batch>>

\* else branch: await send_message(LOG_CHANNEL, "... Failed ...")
NoneNotify(p) ==
    /\ p \in Batch /\ pc[p] = "none_notify" /\ running = "none"
    /\ \/ /\ notified' = [notified EXCEPT ![p] = @ \cup {"ops_failure"}]
          /\ Finish(p)
          /\ UNCHANGED <<exc, running>>
       \/ faults /\ Raise(p, "notify") /\ UNCHANGED <<notified, result>>
    /\ UNCHANGED <<now, until, faults, buffered, file, next_time, sent_ids, item, retry, fetched, posted,
                   written, fired, cycles, probe, batch>>

----------------------------------------------------------------------------
(* The system *)

\* Identifier of the item with key k, as the coroutines of group g compute it
IdOfKey(g, k) ==
    CASE g = "facts" -> ApiId(k)
      [] g = "trivia" -> generate_question_id(Text(k, FALSE))
      [] g = "quiz" -> quiz_generate_question_id(Text(k, FALSE))

MaxOf(g) ==
    CASE g = "facts" -> MAX_STORED_FACTS
      [] g = "trivia" -> MAX_STORED_QUESTIONS
      [] g = "quiz" -> quiz_MAX_STORED_QUESTIONS

\* The history of the n items with keys 1..n, oldest first
History(g, n) == [i \in 1..n |-> IdOfKey(g, i)]

\* What the record of group g can hold when the process starts: nothing, something
\* the process did not write, or a list an earlier run saved (empty, short, full).
InitialContents(g) ==
    {Missing, Unreadable, Garbage, Undecodable, JsonNull, JsonObject(<<>>),
     JsonObject(History(g, MaxKey)), JsonList(<<>>),
     JsonList(History(g, MaxKey)), JsonList(History(g, MaxOf(g)))}

\* An evaluation of save then load on its own: the caller p, the list handed to
\* save, what is left to do, what load returned
StoreProbe(op, p, ids, out) == [op |-> op, p |-> p, ids |-> ids, out |-> out]
NoProbe == StoreProbe("none", "none", <<>>, Returned(PyNone))

\* The coroutines `active` of one module run, from the instant t0, observed for
\* `ticks` steps of the clock.
InitOf(active, t0, ticks, contents, flt) ==
    /\ now = t0
    /\ until = t0 + ticks * TickMinutes
    /\ faults = flt
    /\ \E g \in {Group(p) : p \in active} :
         /\ \A p \in active : Group(p) = g
         /\ \E c \in InitialContents(g) \cap contents[g] :
              file = [n \in FileNames |->
                         IF n = (IF g = "facts" THEN SENT_FACTS_FILE ELSE SENT_TRIVIA_FILE)
                         THEN c ELSE Missing]
    /\ running = "none"
    /\ pc = [p \in Procs |-> IF p \notin active THEN "off"
                             ELSE IF p \in Scheduled THEN "top" ELSE "idle"]
    /\ next_time = [p \in Scheduled |-> 0]
    /\ sent_ids = [p \in Procs |-> PyList(<<>>)]
    /\ item = [p \in Procs |-> NoItem]
    /\ retry = [p \in Procs |-> 0]
    /\ questions = [p \in Procs |-> <<>>]
    /\ qi = [p \in Procs |-> 0]
    /\ new_ids = [p \in Procs |-> <<>>]
    /\ fetched = [p \in Procs |-> <<>>]
    /\ exc = [p \in Procs |-> "none"]
    /\ posted = [p \in Procs |-> <<>>]
    /\ written = [p \in Procs |-> <<>>]
    /\ notified = [p \in Procs |-> {}]
    /\ result = [p \in Procs |-> "none"]
    /\ fired = [p \in Scheduled |-> {}]
    /\ cycles = [p \in Procs |-> 0]
    /\ buffered = [p \in Procs |-> "none"]

AnyContent == [g \in Groups |-> InitialContents(g)]
Lists == [g \in Groups |-> {JsonList(History(g, MaxKey)), JsonList(History(g, MaxOf(g)))}]
Few == [g \in Groups |-> {Unreadable, JsonList(History(g, MaxKey))}]

InitHandlers ==
    /\ \E p \in Handlers : InitOf({p}, Start, 0, AnyContent, TRUE)
    /\ probe = NoProbe
InitOnce ==
    /\ \E p \in Scheduled : InitOf({p}, Start, 2, AnyContent, TRUE)
    /\ probe = NoProbe
InitLoops ==
    /\ \E p \in Scheduled : InitOf({p}, Start, MaxTicks, Few, TRUE)
    /\ probe = NoProbe
InitRace ==
    /\ \E g \in Groups : InitOf({p \in Procs : Group(p) = g}, Start, 2, Lists, FALSE)
    /\ probe = NoProbe

Init == InitHandlers \/ InitOnce

Next ==
    \/ Tick
    \/ \E p \in Procs :
         \/ LoopTop(p) \/ Wake(p) \/ Command(p) \/ Reply(p) \/ LoadOpen(p) \/ LoadRead(p) \/ LoadClose(p)
         \/ Fetch(p) \/ Refetch(p) \/ Send(p)
         \/ QuizFetch(p) \/ QuizItem(p) \/ QuizWhile(p) \/ QuizRefetch(p)
         \/ QuizPoll(p) \/ QuizPause(p) \/ NoneSent(p) \/ NoneNotify(p)
         \/ SaveOpen(p) \/ SaveWrite(p) \/ SaveClose(p)
         \/ Ack(p) \/ Notify(p) \/ ExceptReport(p) \/ ExceptNotify(p)

Spec == Init /\ [][Next]_vars

\* One scheduled loop on its own, over MaxTicks steps of the clock
NextLoops ==
    \/ Tick
    \/ \E p \in Scheduled :
         \/ LoopTop(p) \/ Wake(p) \/ LoadOpen(p) \/ LoadRead(p) \/ LoadClose(p)
         \/ Fetch(p) \/ Refetch(p) \/ Send(p)
         \/ QuizFetch(p) \/ QuizItem(p) \/ QuizWhile(p) \/ QuizRefetch(p)
         \/ QuizPoll(p) \/ QuizPause(p) \/ NoneNotify(p)
         \/ SaveOpen(p) \/ SaveWrite(p) \/ SaveClose(p)
         \/ Notify(p) \/ ExceptNotify(p)

SpecLoops == InitLoops /\ [][NextLoops]_vars

\* The scheduled loop and the handler of one group together, nothing failing
\* outside: the interleavings of their cycles at the awaits
NextRace ==
    \/ Tick
    \/ \E p \in Procs :
         \/ LoopTop(p) \/ Wake(p) \/ Command(p) \/ Reply(p) \/ LoadOpen(p) \/ LoadRead(p) \/ LoadClose(p)
         \/ Fetch(p) \/ Refetch(p) \/ Send(p)
         \/ QuizFetch(p) \/ QuizItem(p) \/ QuizWhile(p) \/ QuizRefetch(p)
         \/ QuizPoll(p) \/ QuizPause(p) \/ NoneSent(p) \/ NoneNotify(p)
         \/ SaveOpen(p) \/ SaveWrite(p) \/ SaveClose(p)
         \/ Ack(p) \/ Notify(p)

SpecRace == InitRace /\ [][NextRace]_vars

\* The top of a scheduled loop at every minute of ProbeDays days
ProbeDays == 2
JustCreated == [g \in Groups |-> {Missing}]
InitNextTime ==
    /\ \E p \in Scheduled : \E t \in 0..(ProbeDays * Day - 1) :
          InitOf({p}, t, 0, JustCreated, FALSE)
    /\ probe = NoProbe

NextNextTime == \E p \in Scheduled : LoopTop(p)

SpecNextTime == InitNextTime /\ [][NextNextTime]_vars

\* save then load, on lists of up to MaxExtra identifiers and on lists within
\* MaxExtra of the bound, oldest first or newest first, over any earlier record
MaxExtra == 2
Lengths(g) ==
    (0..MaxExtra) \cup {n \in (MaxOf(g) - MaxExtra)..(MaxOf(g) + MaxExtra) : n >= 0}
Newest(g, n) == [i \in 1..n |-> IdOfKey(g, n + 1 - i)]

InitStore ==
    \E p \in Procs :
        /\ InitOf({p}, Start, 0, AnyContent, FALSE)
        /\ \E n \in Lengths(Group(p)) :
            \E ids \in {History(Group(p), n), Newest(Group(p), n)} :
               probe = StoreProbe("save", p, ids, Returned(PyNone))

\* await save(ids): the open, which truncates the file or raises
StoreOpen ==
    /\ probe.op = "save"
    /\ LET r == open_w(file[FileOf(probe.p)]) IN
       IF r.raised # "none"
       THEN probe' = [probe EXCEPT !.op = "save_raised", !.out = r] /\ UNCHANGED file
       ELSE /\ file' = [file EXCEPT ![FileOf(probe.p)] = r.val]
            /\ probe' = [probe EXCEPT !.op = "save_write"]
    /\ UNCHANGED <<now, until, faults, buffered, running, pc, next_time, sent_ids, item, retry, batch,
                   fetched, exc, posted, written, notified, result, fired, cycles>>

\* await f.write(...) of the save
StoreWrite ==
    /\ probe.op = "save_write"
    /\ \E ids \in {SaveOf(probe.p, probe.ids).ids} :
       \/ /\ FALSE \in WrittenThrough(ids)
          /\ buffered' = [buffered EXCEPT ![probe.p] = "text"]
          /\ UNCHANGED file
       \/ /\ TRUE \in WrittenThrough(ids)
          /\ \E c \in Flush(file[FileOf(probe.p)], ids) :
                file' = [file EXCEPT ![FileOf(probe.p)] = c]
          /\ UNCHANGED buffered
    /\ probe' = [probe EXCEPT !.op = "save_close"]
    /\ UNCHANGED <<now, until, faults, running, pc, next_time, sent_ids, item, retry, batch,
                   fetched, exc, posted, written, notified, result, fired, cycles>>

\* The close of the save
StoreClose ==
    /\ probe.op = "save_close"
    /\ \E ids \in {SaveOf(probe.p, probe.ids).ids} :
       IF buffered[probe.p] = "text"
       THEN \E c \in Flush(file[FileOf(probe.p)], ids) :
               file' = [file EXCEPT ![FileOf(probe.p)] = c]
       ELSE UNCHANGED file
    /\ buffered' = [buffered EXCEPT ![probe.p] = "none"]
    /\ probe' = [probe EXCEPT !.op = "load"]
    /\ UNCHANGED <<now, until, faults, running, pc, next_time, sent_ids, item, retry, batch,
                   fetched, exc, posted, written, notified, result, fired, cycles>>

\* await load(), with nothing written since the save: the open
StoreLoadOpen ==
    /\ probe.op = "load"
    /\ probe' = [probe EXCEPT !.op = "load_read"]
    /\ UNCHANGED <<now, until, faults, buffered, file, running, pc, next_time, sent_ids, item, retry,
                   batch, fetched, exc, posted, written, notified, result, fired, cycles>>

\* content = await f.read(); json.loads(content)
StoreLoadRead ==
    /\ probe.op = "load_read"
    /\ probe' = [probe EXCEPT !.op = "load_close",
                              !.out = LoadOf(probe.p, file[FileOf(probe.p)])]
    /\ UNCHANGED <<now, until, faults, buffered, file, running, pc, next_time, sent_ids, item, retry,
                   batch, fetched, exc, posted, written, notified, result, fired, cycles>>

\* The close of the load: load returns
StoreLoadClose ==
    /\ probe.op = "load_close"
    /\ probe' = [probe EXCEPT !.op = "done"]
    /\ UNCHANGED <<now, until, faults, buffered, file, running, pc, next_time, sent_ids, item, retry,
                   batch, fetched, exc, posted, written, notified, result, fired, cycles>>

NextStore ==
    \/ StoreOpen \/ StoreWrite \/ StoreClose
    \/ StoreLoadOpen \/ StoreLoadRead \/ StoreLoadClose

SpecStore == InitStore /\ [][NextStore]_vars

\* One call of a fetcher on its own, on every response of its source, at the
\* instants the clock of the loops takes
FetchProbe(op, p, r, t, out) == [op |-> op, p |-> p, r |-> r, t |-> t, out |-> out]

AllResponsesOf(p) ==
    IF p \in Batch THEN QuizResponses
    ELSE IF Group(p) = "facts" THEN FactResponses ELSE TriviaResponses

InitFetch ==
    \E p \in Procs : \E i \in 0..MaxTicks :
        /\ InitOf({p}, Start + i * TickMinutes, 0, JustCreated, TRUE)
        /\ \E r \in AllResponsesOf(p) : probe = FetchProbe("call", p, r, Reading(now), <<>>)

\* The items the fetcher of p returns, as a list
CallFetch ==
    /\ probe.op = "call"
    /\ probe' = [probe EXCEPT
                    !.op = "returned",
                    !.out = IF probe.p \in Batch
                            THEN fetch_trivia_questions(probe.r, probe.t)
                            ELSE <<FetchOf(probe.p, probe.r, probe.t)>>]
    /\ UNCHANGED <<now, until, faults, buffered, file, running, pc, next_time, sent_ids, item, retry,
                   batch, fetched, exc, posted, written, notified, result, fired, cycles>>

NextFetch == CallFetch

SpecFetch == InitFetch /\ [][NextFetch]_vars

\* Two calls of the same fetcher, one after the other, the clock moving between
\* them or not: the responses and what each call returned
PairProbe(op, p, r1, r2, out1, out2) ==
    [op |-> op, p |-> p, r1 |-> r1, r2 |-> r2, out1 |-> out1, out2 |-> out2]

\* The items the fetcher of p returns on response r at reading t, as a list
FetchList(p, r, t) ==
    IF p \in Batch THEN fetch_trivia_questions(r, t) ELSE <<FetchOf(p, r, t)>>

InitPair ==
    \E p \in Procs :
        /\ InitOf({p}, Start, 1, JustCreated, TRUE)
        /\ \E r1 \in AllResponsesOf(p) : \E r2 \in AllResponsesOf(p) :
              probe = PairProbe("first", p, r1, r2, <<>>, <<>>)

FirstCall ==
    /\ probe.op = "first"
    /\ probe' = [probe EXCEPT !.op = "second",
                              !.out1 = FetchList(probe.p, probe.r1, Reading(now))]
    /\ UNCHANGED <<now, until, faults, buffered, file, running, pc, next_time, sent_ids, item, retry,
                   batch, fetched, exc, posted, written, notified, result, fired, cycles>>

SecondCall ==
    /\ probe.op = "second"
    /\ probe' = [probe EXCEPT !.op = "returned",
                              !.out2 = FetchList(probe.p, probe.r2, Reading(now))]
    /\ UNCHANGED <<now, until, faults, buffered, file, running, pc, next_time, sent_ids, item, retry,
                   batch, fetched, exc, posted, written, notified, result, fired, cycles>>

NextPair == FirstCall \/ SecondCall \/ Tick

SpecPair == InitPair /\ [][NextPair]_vars

\* The scheduled loop of one category and the handler of another, tasks of one
\* event loop (facts.py:171 asyncio.create_task; the handlers are coroutines the
\* client runs on the same loop).  Both records hold a history.
Cross == {"send_scheduled_facts", "instant_trivia_handler"}

InitCross ==
    /\ now = Start
    /\ until = Start + TickMinutes
    /\ faults = FALSE
    /\ file = [n \in FileNames |->
                  JsonList(History(IF n = SENT_FACTS_FILE THEN "facts" ELSE "trivia", MaxKey))]
    /\ running = "none"
    /\ pc = [p \in Procs |-> IF p \notin Cross THEN "off"
                             ELSE IF p \in Scheduled THEN "top" ELSE "idle"]
    /\ next_time = [p \in Scheduled |-> 0]
    /\ sent_ids = [p \in Procs |-> PyList(<<>>)]
    /\ item = [p \in Procs |-> NoItem]
    /\ retry = [p \in Procs |-> 0]
    /\ questions = [p \in Procs |-> <<>>]
    /\ qi = [p \in Procs |-> 0]
    /\ new_ids = [p \in Procs |-> <<>>]
    /\ fetched = [p \in Procs |-> <<>>]
    /\ exc = [p \in Procs |-> "none"]
    /\ posted = [p \in Procs |-> <<>>]
    /\ written = [p \in Procs |-> <<>>]
    /\ notified = [p \in Procs |-> {}]
    /\ result = [p \in Procs |-> "none"]
    /\ fired = [p \in Scheduled |-> {}]
    /\ cycles = [p \in Procs |-> 0]
    /\ buffered = [p \in Procs |-> "none"]
    /\ probe = NoProbe

NextCross ==
    \/ Tick
    \/ \E p \in Procs :
         \/ LoopTop(p) \/ Wake(p) \/ Command(p) \/ Reply(p) \/ LoadOpen(p) \/ LoadRead(p) \/ LoadClose(p)
         \/ Fetch(p) \/ Refetch(p) \/ Send(p)
         \/ SaveOpen(p) \/ SaveWrite(p) \/ SaveClose(p)
         \/ Ack(p) \/ Notify(p)

SpecCross == InitCross /\ [][NextCross]_vars

\* One loop or handler on its own, over a history, with the outside world failing
\* or not; every external call returns or raises, and the event loop runs a
\* coroutine that can take a step: a step that stays possible is taken in the end
InitCycle ==
    /\ \E p \in Procs : \E flt \in BOOLEAN : InitOf({p}, Start, 1, Lists, flt)
    /\ probe = NoProbe

SpecCycle == InitCycle /\ [][Next]_vars /\ WF_vars(Next)

----------------------------------------------------------------------------
(* Properties *)

InSeq(x, q) == \E i \in 1..Len(q) : q[i] = x

\* The history p loaded at the start of its cycle: sent_ids before the identifier
\* of this cycle was appended to it.
LoadedHistory(p) ==
    IF written[p] # <<>> THEN SubSeq(written[p], 1, Len(written[p]) - 1)
    ELSE sent_ids[p].ids

\* The fetches of p's cycle whose identifier is not in the loaded history
Unique(p) == {i \in 1..Len(fetched[p]) : ~InSeq(fetched[p][i].id, LoadedHistory(p))}

\* C1: in a single-item cycle, if some fetch returns an identifier that is not in
\* the loaded history, the item dispatched is the item of the first such fetch and
\* that fetch is the last one of the cycle.
C1_FirstUniqueIsDispatched ==
    \A p \in Single :
        (posted[p] # <<>> /\ Unique(p) # {}) =>
            /\ posted[p] = <<fetched[p][Min(Unique(p))]>>
            /\ Len(fetched[p]) = Min(Unique(p))

\* C1: history {A}, fetches A, A, C: the item with identifier C was dispatched
C1_Witness ==
    \E p \in Single :
        /\ posted[p] # <<>>
        /\ Len(fetched[p]) = 3
        /\ Unique(p) = {3}
        /\ posted[p][1].id = fetched[p][3].id

\* Every fetch of p's cycle so far returned an identifier of the loaded history
AllDuplicates(p) == fetched[p] # <<>> /\ Unique(p) = {}

\* C2 as stated: when every fetch returns an identifier of the loaded history the
\* cycle makes 5 fetches in total and dispatches the 5th.
C2_FiveFetches ==
    \A p \in Single :
        (posted[p] # <<>> /\ AllDuplicates(p)) =>
            /\ Len(fetched[p]) = 5
            /\ posted[p] = <<fetched[p][5]>>

\* C2 amended: when every fetch returns an identifier of the loaded history the
\* cycle makes 6 fetches in total (the first and 5 retries), the exhausted budget
\* raises nothing, the 6th item is the one dispatched, its identifier is the one
\* appended for the save, and the record holds it last once the save is done.
C2_SixFetches ==
    \A p \in Single :
        (AllDuplicates(p) /\ pc[p] # "refetch") =>
            /\ Len(fetched[p]) = 6
            /\ retry[p] = 5
            /\ exc[p] # "in"
            /\ posted[p] # <<>> => posted[p] = <<fetched[p][6]>>
            /\ written[p] # <<>> => written[p][Len(written[p])] = fetched[p][6].id
            /\ pc[p] \in {"ack", "notify"} =>
                  /\ file[FileOf(p)].st = "list"
                  /\ file[FileOf(p)].ids # <<>>
                  /\ file[FileOf(p)].ids[Len(file[FileOf(p)].ids)] = fetched[p][6].id

\* C2: six duplicates were fetched, the last was dispatched and saved
C2_Witness ==
    \E p \in Single :
        /\ AllDuplicates(p)
        /\ Len(fetched[p]) = 6
        /\ posted[p] # <<>>
        /\ pc[p] \in {"ack", "notify"}

\* C3: a scheduled loop never terminates: whatever fails in a cycle, and whatever
\* fails while that failure is being reported, the loop is back at its top.
C3_LoopNeverEnds == \A p \in Scheduled : pc[p] # "dead"

\* The fixed daily trigger times of a scheduled loop, as instants
HoursOf(p) ==
    CASE p = "send_scheduled_facts" -> FACT_HOURS
      [] p = "send_scheduled_trivia" -> TRIVIA_HOURS
      [] p = "quiz_send_scheduled_trivia" -> QUIZ_HOURS

Triggers(p) ==
    {d * Day + HoursOf(p)[i] * MinutesPerHour :
        d \in 0..((until \div Day) + 1), i \in 1..Len(HoursOf(p))}

\* C4 as stated: every scheduled loop makes exactly one dispatch attempt per trigger
\* time: as many attempts as triggers fired, and, once the loop waits for a trigger,
\* every trigger between the first one it fired and that one has been fired.
C4_ExactlyOncePerTrigger ==
    \A p \in Scheduled :
        /\ cycles[p] = Cardinality(fired[p])
        /\ pc[p] = "sleep" =>
              \A t \in Triggers(p) :
                  ((\E f \in fired[p] : f < t) /\ t < next_time[p]) => t \in fired[p]

\* C4 amended: each iteration waits for the earliest trigger strictly after the
\* instant at which it read the clock; a sleep that returns no earlier than that
\* trigger starts one dispatch attempt for it, and that trigger was not attempted
\* before; no other step starts an attempt.  The triggers that pass between a
\* wake-up and the next reading of the clock get no attempt.
C4_OnePerWake ==
    [][\A p \in Scheduled :
          /\ (pc[p] = "top" /\ pc'[p] = "sleep") =>
                next_time'[p] = Min({t \in Triggers(p) : t > now})
          /\ (pc[p] = "sleep" /\ pc'[p] = "load") =>
                /\ now >= next_time[p]
                /\ next_time[p] \notin fired[p]
                /\ fired'[p] = fired[p] \cup {next_time[p]}
                /\ cycles'[p] = cycles[p] + 1
          /\ (pc[p] # "sleep" \/ pc'[p] # "load") =>
                /\ fired'[p] = fired[p]
                /\ cycles'[p] = cycles[p]]_vars

\* C4: a loop that attempted one trigger waits for a later one, and a trigger in
\* between got no attempt
C4_Witness ==
    \E p \in Scheduled :
        /\ pc[p] = "sleep"
        /\ \E f \in fired[p] : \E t \in Triggers(p) :
              f < t /\ t < next_time[p] /\ t \notin fired[p]

\* The hours of a loop's fixed daily times, as a set
FixedHours(p) == {HoursOf(p)[i] : i \in 1..Len(HoursOf(p))}

\* The earliest fixed time of the day of t that is strictly after t, or the first
\* fixed time of the next day when there is none
EarliestAfter(p, t) ==
    LET midnight == t - (t % Day)
        today == {midnight + h * MinutesPerHour : h \in FixedHours(p)}
    IN  IF \E x \in today : x > t
        THEN CHOOSE x \in today : x > t /\ \A y \in today : y > t => x <= y
        ELSE midnight + Day + MinutesPerHour * (CHOOSE h \in FixedHours(p) :
                                                   \A k \in FixedHours(p) : h <= k)

\* C5: the next trigger computed at the top of a loop is the earliest fixed daily
\* time strictly after the current time on the same day, or the first fixed time of
\* the next day when none of that day is strictly after it; for the facts loop,
\* 08:30 gives 12:00 the same day and 20:30 gives 08:00 the next day.
C5_NextTrigger ==
    \A p \in Scheduled :
        pc[p] = "sleep" =>
            /\ next_time[p] = EarliestAfter(p, now)
            /\ (p = "send_scheduled_facts" /\ now % Day = 8 * MinutesPerHour + 30) =>
                   next_time[p] = now - 30 + 4 * MinutesPerHour
            /\ (p = "send_scheduled_facts" /\ now % Day = 20 * MinutesPerHour + 30) =>
                   next_time[p] = now - 30 + 12 * MinutesPerHour

\* C5: at 20:00 sharp, the last fixed time of the facts loop, the next trigger
\* computed is 08:00 of the next day
C5_Witness ==
    /\ pc["send_scheduled_facts"] = "sleep"
    /\ now = 20 * MinutesPerHour
    /\ next_time["send_scheduled_facts"] = Day + 8 * MinutesPerHour

\* The bound on the record kept in file f
MaxHistory(f) == IF f = SENT_FACTS_FILE THEN 200 ELSE 300

\* C6: the durable history record of each category holds at most MAX_HISTORY
\* identifiers (200 for facts, 300 for trivia), whatever cycles have run.
C6_BoundedHistory ==
    \A f \in FileNames : file[f].st = "list" => Len(file[f].ids) <= MaxHistory(f)

\* C6: a cycle appended an identifier to a full history and saved it; the record
\* holds as many as the bound
C6_Witness ==
    \E p \in Procs :
        /\ pc[p] \in {"ack", "notify"}
        /\ Len(written[p]) > MaxHistory(FileOf(p))
        /\ file[FileOf(p)].st = "list"
        /\ Len(file[FileOf(p)].ids) = MaxHistory(FileOf(p))

\* The last n elements of ids in their order, all of ids when it has no more than n
LastElements(ids, n) ==
    LET k == IF Len(ids) <= n THEN Len(ids) ELSE n
    IN  [i \in 1..k |-> ids[Len(ids) - k + i]]

\* C7: a successful save of ids followed by load, with no write in between,
\* returns the last MAX_HISTORY elements of ids in their original order.
C7_SaveThenLoad ==
    probe.op = "done" =>
        probe.out = Returned(PyList(LastElements(probe.ids,
                                                 MaxHistory(FileOf(probe.p)))))

\* C7: a list two longer than the bound was saved and loaded: the list returned
\* starts at its third element and ends at its last
C7_Witness ==
    /\ probe.op = "done"
    /\ Len(probe.ids) = MaxHistory(FileOf(probe.p)) + 2
    /\ probe.out.raised = "none"
    /\ Len(probe.out.val.ids) = MaxHistory(FileOf(probe.p))
    /\ probe.out.val.ids[1] = probe.ids[3]
    /\ probe.ids[1] # probe.ids[3]

\* C8: load returns a sequence and raises nothing to its caller, whatever the
\* durable record is: no cycle is in its except block because of the load, and
\* what a cycle holds as its history is a list.
C8_LoadNeverRaises ==
    \A p \in Procs : exc[p] # "load" /\ sent_ids[p].t = "list"

\* C9: the durable record is never empty or partial: at every await point of a
\* save, and after a save that failed part-way, it is a complete list.
C9_AtomicSave ==
    \A f \in FileNames : file[f].st \notin {"empty", "partial"}

\* An upstream failure: network error or timeout, error status, malformed response,
\* missing required field, empty result set
UpstreamFailure(r) ==
    \/ r.net # "ok"
    \/ ~r.http_ok
    \/ r.body # "object"
    \/ IF "has_text" \in DOMAIN r
       THEN ~r.has_text
       ELSE \/ r.code # 0
            \/ ~r.is_list
            \/ r.results = <<>>
            \/ \E i \in 1..Len(r.results) :
                  \/ ~r.results[i].is_dict
                  \/ r.results[i].missing # "none"
                  \/ ~r.results[i].strs

\* The static placeholder payloads
Placeholders == {"honey", "rising sun", "static"}

\* C10: on any upstream failure the fetcher returns exactly `count` static
\* fallback items (4 for the batch, 1 otherwise), each with an identifier that has
\* the prefix fallback_.
C10_FallbackOnFailure ==
    (probe.op = "returned" /\ UpstreamFailure(probe.r)) =>
        /\ Len(probe.out) = (IF probe.p \in Batch THEN 4 ELSE 1)
        /\ \A i \in 1..Len(probe.out) :
              /\ HasFallbackPrefix(probe.out[i].id)
              /\ probe.out[i].payload.kind \in Placeholders

\* C10: the batch fetcher got a response whose last entry lacks a required field
\* and returned four fallback items
C10_Witness ==
    /\ probe.op = "returned"
    /\ probe.p \in Batch
    /\ probe.r.net = "ok" /\ probe.r.http_ok /\ probe.r.body = "object"
    /\ probe.r.code = 0 /\ probe.r.is_list
    /\ Len(probe.r.results) = 4
    /\ probe.r.results[4].missing = "category"
    /\ Len(probe.out) = 4
    /\ \A i \in 1..4 : HasFallbackPrefix(probe.out[i].id)

\* C11: within one batch cycle the identifiers of the items dispatched are pairwise
\* distinct, even when two items of the response carry the same question text.
C11_DistinctInBatch ==
    \A p \in Batch :
        \A i \in 1..Len(posted[p]) : \A j \in 1..Len(posted[p]) :
            i # j => posted[p][i].id # posted[p][j].id

\* C12: an on-demand handler never lets an exception out: whichever step of its
\* cycle fails, the handler returns normally, having reported the error to the
\* administrator and a failure notice to the operations channel.
C12_HandlerContainsFailure ==
    \A p \in Handlers :
        /\ result[p] # "raised"
        /\ (result[p] = "returned" /\ exc[p] # "none") =>
               {"admin_error", "ops_failure"} \subseteq notified[p]

\* C13: when the dispatch or the save of a scheduled cycle failed, a failure notice
\* was delivered to the operations channel before the loop is back at its top.
C13_FailureIsNotified ==
    \A p \in Scheduled :
        (pc[p] = "top" /\ exc[p] \in {"send", "save"}) => "ops_failure" \in notified[p]

\* The items of a list that come from the source, not from the static fallback
FromSource(out) == {i \in 1..Len(out) : out[i].payload.kind \in {"fact", "question"}}

\* C14: two successfully fetched items whose text is the same once whitespace is
\* collapsed and trimmed have the same identifier, within a call and from one
\* call to a later one, in every fetcher.
C14_SameTextSameId ==
    probe.op = "returned" =>
        LET all == probe.out1 \o probe.out2 IN
        \A i \in FromSource(all) : \A j \in FromSource(all) :
            all[i].payload.k = all[j].payload.k => all[i].id = all[j].id

\* C15: the fallback identifiers produced by two separate failed fetches of the
\* same fetcher are different, whether or not the clock reading advanced between
\* the two.
C15_FallbackIdsDiffer ==
    probe.op = "returned" =>
        \A i \in 1..Len(probe.out1) : \A j \in 1..Len(probe.out2) :
            (HasFallbackPrefix(probe.out1[i].id) /\ HasFallbackPrefix(probe.out2[j].id))
                => probe.out1[i].id # probe.out2[j].id

\* C16: a notification to the operations channel that fails changes nothing else:
\* the administrator is not shown an error because of it, the handler does not
\* end with an exception and the scheduled loop does not end.
C16_NotificationHasNoEffect ==
    \A p \in Procs :
        exc[p] = "notify" =>
            /\ "admin_error" \notin notified[p]
            /\ result[p] # "raised"
            /\ pc[p] # "dead"

\* No cycle is under way
Quiescent == \A p \in Procs : pc[p] \in {"off", "idle", "top", "sleep", "dead"}

\* C17: overlapping cycles of one category lose no identifier other than those the
\* overlapping cycles appended: once the cycles are over, the oldest identifier of
\* the history they started from is still in the durable record, unless the bound
\* on the record pushed it out.
C17_OnlyOverlappingIdsLost ==
    \A p \in Procs :
        (/\ pc[p] # "off"
         /\ Quiescent
         /\ file[FileOf(p)].st = "list"
         /\ Len(file[FileOf(p)].ids) < MaxHistory(FileOf(p)))
            => InSeq(IdOfKey(Group(p), 1), file[FileOf(p)].ids)

\* C18: in a batch cycle no fetched item is dropped because its identifier collides
\* with the history: when the loop over the fetched items has ended and no dispatch
\* has failed, every one of the fetched items has been resolved to a candidate and
\* dispatched.
C18_NoItemDropped ==
    \A p \in Batch :
        (~faults /\ pc[p] = "item" /\ qi[p] > Len(questions[p]))
            => Len(posted[p]) = Len(questions[p])

\* The identifiers of the items p has dispatched
Dispatched(p) == {posted[p][i].id : i \in 1..Len(posted[p])}

\* The history p loaded at the start of its cycle, seen from the list it saves
Loaded(p) ==
    IF p \in Batch THEN SubSeq(written[p], 1, Len(written[p]) - Len(new_ids[p]))
    ELSE LoadedHistory(p)

\* After p's save, an identifier fetched in the cycle is in the record only if its
\* item was dispatched or the loaded history held it already
OnlyDispatchedWritten ==
    \A p \in Procs :
        (pc[p] \in {"ack", "notify"} /\ file[FileOf(p)].st = "list") =>
            \A i \in 1..Len(fetched[p]) :
                InSeq(fetched[p][i].id, file[FileOf(p)].ids) =>
                    \/ fetched[p][i].id \in Dispatched(p)
                    \/ InSeq(fetched[p][i].id, Loaded(p))

\* A step after which nothing has been dispatched leaves every record as it was
NothingDispatchedNothingWritten ==
    (\A p \in Procs : posted'[p] = <<>>) => file' = file

\* C19: a cycle writes the durable history only after its dispatch succeeded: the
\* identifier of an item whose dispatch failed is not written to the record by the
\* cycle, and while no item has been dispatched the record is left unchanged.
C19_WriteOnlyAfterDispatch ==
    []OnlyDispatchedWritten /\ [][NothingDispatchedNothingWritten]_vars

\* A batch cycle has saved its history after a poll of a question that is not in
\* the history failed: that question's identifier is not in the record.
C19_Witness ==
    \E p \in Batch :
        /\ pc[p] = "notify" /\ posted[p] # <<>>
        /\ file[FileOf(p)].st = "list"
        /\ \E i \in 1..Len(fetched[p]) :
             /\ ~In(fetched[p][i].id, sent_ids[p])
             /\ ~InSeq(fetched[p][i].id, file[FileOf(p)].ids)

\* The cycle of p is waiting for a network fetch to return
FetchInProgress(p) == pc[p] \in {"fetch", "refetch"} /\ running = p

\* q has a step to take as far as q itself is concerned: its trigger time has come,
\* or the load, dispatch or save it awaits can complete
Ready(q) ==
    \/ pc[q] = "sleep" /\ now >= next_time[q]
    \/ pc[q] \in {"load", "load_read", "load_close", "send",
                 "save_open", "save_write", "save_close"}

\* C20: a fetch in progress blocks only the cycle that issued it: while a cycle of
\* one category waits for its fetch to return, a loop or handler of another
\* category that is ready to wake, load, dispatch or save can take that step.
C20_FetchBlocksOnlyItsCycle ==
    \A p \in Procs : \A q \in Procs :
        (Group(p) # Group(q) /\ FetchInProgress(p) /\ Ready(q)) =>
            ENABLED (\/ Wake(q) \/ LoadOpen(q) \/ LoadRead(q) \/ LoadClose(q) \/ Send(q)
                     \/ SaveOpen(q) \/ SaveWrite(q) \/ SaveClose(q))

\* C21: every cycle terminates: a cycle makes a bounded number of fetches (a
\* single-item cycle the first and at most 5 more, a batch cycle one fetch of
\* QUESTIONS_PER_POST questions and less than 3 counted retries per item), and a
\* cycle that has started reaches its end (the scheduled loop back at its top or
\* ended, the handler returned, the coroutines that were not started off); the
\* retry loop of a batch item is left.
C21_CycleTerminates ==
    /\ [](\A p \in Procs :
            IF p \in Batch
            THEN Len(fetched[p]) <= QUESTIONS_PER_POST /\ retry[p] < 3
            ELSE Len(fetched[p]) <= 1 + 5 /\ retry[p] <= 5)
    /\ (\E p \in Procs : pc[p] = "load")
          ~> (\A p \in Procs : pc[p] \in {"off", "top", "idle", "dead"})

\* C21_Witness: a batch cycle ended in which nothing failed outside and a question
\* was not posted: its identifier was in the history, the retry loop was entered
\* and left.
C21_Witness ==
    \E p \in Batch :
        /\ ~faults /\ cycles[p] > 0 /\ pc[p] \in {"top", "idle"}
        /\ Len(fetched[p]) = QUESTIONS_PER_POST
        /\ Len(posted[p]) < QUESTIONS_PER_POST

\* The history p's load returned at the start of its cycle: sent_ids without the
\* identifiers the cycle has added to it (facts.py:327 adds none to the list)
StartHistory(p) ==
    IF Group(p) = "trivia" THEN sent_ids[p].ids
    ELSE SubSeq(sent_ids[p].ids, 1, Len(sent_ids[p].ids) - Len(posted[p]))

\* C22: after a cycle whose dispatch and save both succeeded, with no other cycle
\* of the category in between, the durable history is the history loaded at the
\* start of the cycle followed by the identifiers dispatched in the cycle in
\* dispatch order, cut to its last MAX_HISTORY entries: the stored identifiers keep
\* their order, only the oldest are dropped, the newest dispatched one is last.
C22_HistoryAfterCycle ==
    \A p \in Procs :
        (pc[p] \in {"ack", "notify"} /\ exc[p] = "none") =>
            file[FileOf(p)] =
                JsonList(LastElements(StartHistory(p) \o Ids(posted[p]),
                                      MaxHistory(FileOf(p))))

\* A batch cycle that started from a full history has dispatched at least two
\* items and saved: the oldest identifiers are gone, the record is still full, its
\* first entry is the one that followed them and its last the newest dispatched.
C22_Witness ==
    \E p \in Batch :
        /\ pc[p] = "notify" /\ exc[p] = "none"
        /\ Len(posted[p]) >= 2
        /\ Len(StartHistory(p)) = MaxHistory(FileOf(p))
        /\ file[FileOf(p)].st = "list"
        /\ Len(file[FileOf(p)].ids) = MaxHistory(FileOf(p))
        /\ file[FileOf(p)].ids[1] = StartHistory(p)[Len(posted[p]) + 1]
        /\ file[FileOf(p)].ids[1] # StartHistory(p)[1]
        /\ file[FileOf(p)].ids[MaxHistory(FileOf(p))] = posted[p][Len(posted[p])].id

====
